---- MODULE Spec2Model ----
(***************************************************************************)
(* Model of script.py: a one-shot host inspector.  Every query function    *)
(* reads external sources (files, subprocesses, system calls) and falls    *)
(* back through an ordered chain of alternatives.  A source read is one    *)
(* action; its outcome (content, or the exception the read raises) is      *)
(* drawn from a bounded set when the code performs the read.               *)
(***************************************************************************)
EXTENDS Integers, Sequences, FiniteSets, TLC

VARIABLES
    entry,          \* the function the run started in ("main" or one query)
    pc,             \* position of the single thread of control
    exc,            \* exception propagating out of the entry function, "" if none
    raised_in,      \* the call of main's order that raised it
    system,         \* platform.system()
    cpu_count,      \* what os.cpu_count() reports on this host
    psutil_out,     \* outcome of import psutil / psutil.cpu_count(logical=False)
    powershell_out, \* outcome of the PowerShell NumberOfCores subprocess
    cpuinfo,        \* outcome of open("/proc/cpuinfo")
    sysfs,          \* outcome of the sysfs topology walk
    value,          \* local `value` of get_physical_cpu_count
    consulted,      \* sources read so far by get_physical_cpu_count, in order
    physical_cores, \* result of get_physical_cpu_count()
    logical_cores,  \* result of get_logical_cpu_count()
    memstatus,      \* outcome of GlobalMemoryStatusEx
    meminfo,        \* outcome of open("/proc/meminfo")
    sysconf_out,    \* outcome of the two os.sysconf calls
    mem_tried,      \* sources read so far by the running RAM query, in order
    total_ram_bytes, \* result of get_total_ram_bytes()
    free_ram_bytes, \* result of get_free_ram_bytes()
    gpu_powershell, \* outcome of the PowerShell Win32_VideoController subprocess
    gpu_wmic,       \* outcome of the wmic Win32_VideoController subprocess
    lspci_out,      \* outcome of the lspci subprocess
    nvidia_files,   \* outcomes of opening the NVIDIA information files
    drm_cards,      \* outcomes of opening the DRM cards' uevent files
    names,          \* local `names` of the running GPU query
    gpu_tried,      \* sources read so far by get_gpu_names, in order
    gpu_names,      \* result of get_gpu_names()
    table_rows,     \* argument `rows` of table_lines
    table_header,   \* argument `header` of table_lines
    table_out,      \* list returned by table_lines
    edition_out,    \* outcome of platform.win32_edition()
    winreg_out,     \* outcome of the registry read of the build number
    os_release,     \* outcome of open("/etc/os-release")
    os_name,        \* result of get_os_name()
    install_reg,    \* outcome of the registry read of InstallDate
    stats,          \* outcomes of os.stat on the candidate paths
    install_dt,     \* result of get_os_install_datetime()
    main_rows       \* local `rows` of main

cpuVars == <<cpu_count, psutil_out, powershell_out, cpuinfo, sysfs, value,
             consulted, physical_cores, logical_cores>>

memVars == <<memstatus, meminfo, sysconf_out, mem_tried, total_ram_bytes,
             free_ram_bytes>>

gpuVars == <<gpu_powershell, gpu_wmic, lspci_out, nvidia_files, drm_cards, names,
             gpu_tried, gpu_names>>

tableVars == <<table_rows, table_header, table_out>>

osVars == <<edition_out, winreg_out, os_release, os_name, install_reg, stats, install_dt>>

vars == <<entry, pc, exc, raised_in, system, cpuVars, memVars, gpuVars, tableVars,
          osVars, main_rows>>

nonCpuVars == <<memVars, gpuVars, tableVars, osVars, main_rows>>
nonMemVars == <<cpuVars, gpuVars, tableVars, osVars, main_rows>>
nonGpuVars == <<cpuVars, memVars, tableVars, osVars, main_rows>>
nonTableVars == <<cpuVars, memVars, gpuVars, osVars, main_rows>>
nonOsVars == <<cpuVars, memVars, gpuVars, tableVars, main_rows>>

(***************************************************************************)
(* Bounds of the model.                                                    *)
(***************************************************************************)
MaxBlocks == 2      \* processor blocks in a /proc/cpuinfo table
MaxMemLines == 2    \* lines of a /proc/meminfo table
MaxGpuLines == 2    \* lines printed by a GPU listing subprocess
MaxGpuFiles == 2    \* NVIDIA information files, DRM cards
MaxCell == 2        \* characters of a table cell
MaxRows == 2        \* rows of a table
MaxOsLines == 2     \* lines of /etc/os-release
HugeDigits == 320   \* digits of the longest number a table states

(***************************************************************************)
(* Python values and exceptions.                                           *)
(***************************************************************************)
None == [tag |-> "none", n |-> 0, exc |-> ""]
IntV(n) == [tag |-> "int", n |-> n, exc |-> ""]
Raise(e) == [tag |-> "raise", n |-> 0, exc |-> e]
Unread == [tag |-> "unread", n |-> 0, exc |-> ""]

IsNone(v) == v.tag = "none"
IsInt(v) == v.tag = "int"
IsRaise(v) == v.tag = "raise"

\* The exception classes the program meets, with their base classes.
Bases(e) ==
    CASE e = "FileNotFoundError" -> {"FileNotFoundError", "OSError", "Exception"}
      [] e = "PermissionError" -> {"PermissionError", "OSError", "Exception"}
      [] e = "OSError" -> {"OSError", "Exception"}
      [] e = "UnicodeDecodeError" -> {"UnicodeDecodeError", "ValueError", "Exception"}
      [] e = "ValueError" -> {"ValueError", "Exception"}
      [] e = "IndexError" -> {"IndexError", "Exception"}
      [] e = "ImportError" -> {"ImportError", "Exception"}
      [] e = "AttributeError" -> {"AttributeError", "Exception"}
      [] e = "TimeoutExpired" -> {"TimeoutExpired", "Exception"}
      [] e = "OverflowError" -> {"OverflowError", "ArithmeticError", "Exception"}
      [] e \in {"RuntimeError: Unable to determine total RAM on Linux",
                 "RuntimeError: Unable to determine free RAM on Linux"}
           -> {"RuntimeError", "Exception"}
      [] e = "NotImplementedError: Unsupported OS"
           -> {"NotImplementedError", "RuntimeError", "Exception"}
      [] e = "OSError: GlobalMemoryStatusEx failed" -> {"OSError", "Exception"}
      [] OTHER -> {e}

\* `except classes:` catches e
Catches(classes, e) == Bases(e) \cap classes # {}

(***************************************************************************)
(* Text.  A string is a sequence of one-character strings.                 *)
(***************************************************************************)
Whitespace == {" ", "\t", "\n", "\r"}
Digits == {"0", "1", "2", "3", "4", "5", "6", "7", "8", "9"}

DigitVal(c) ==
    CASE c = "0" -> 0 [] c = "1" -> 1 [] c = "2" -> 2 [] c = "3" -> 3
      [] c = "4" -> 4 [] c = "5" -> 5 [] c = "6" -> 6 [] c = "7" -> 7
      [] c = "8" -> 8 [] c = "9" -> 9

\* str.lstrip()
LStrip(s) ==
    LET kept == {i \in 1..Len(s) : s[i] \notin Whitespace}
    IN  IF kept = {} THEN <<>>
        ELSE SubSeq(s, CHOOSE i \in kept : \A j \in kept : i <= j, Len(s))

\* str.rstrip()
RStrip(s) ==
    LET kept == {i \in 1..Len(s) : s[i] \notin Whitespace}
    IN  IF kept = {} THEN <<>>
        ELSE SubSeq(s, 1, CHOOSE i \in kept : \A j \in kept : j <= i)

\* str.strip()
Strip(s) == RStrip(LStrip(s))

RECURSIVE DecimalValue(_)
DecimalValue(ds) ==
    IF ds = <<>> THEN 0
    ELSE 10 * DecimalValue(SubSeq(ds, 1, Len(ds) - 1)) + DigitVal(ds[Len(ds)])

\* int(text) for a machine-word sized result: surrounding whitespace is
\* dropped, one sign is allowed, the rest must be decimal digits.
PyInt(text) ==
    LET s == Strip(text)
        signed == s # <<>> /\ Head(s) \in {"-", "+"}
        ds == IF signed THEN Tail(s) ELSE s
    IN  IF ds = <<>> \/ \E i \in 1..Len(ds) : ds[i] \notin Digits
        THEN Raise("ValueError")
        ELSE IF signed /\ Head(s) = "-" THEN IntV(0 - DecimalValue(ds))
             ELSE IntV(DecimalValue(ds))

\* char * n
Repeat(char, n) == [i \in 1..n |-> char]

\* str.startswith
StartsWithStr(s, prefix) ==
    Len(s) >= Len(prefix) /\ SubSeq(s, 1, Len(prefix)) = prefix

\* the characters of s before its first whitespace
TakeWord(s) ==
    LET gaps == {i \in 1..Len(s) : s[i] \in Whitespace}
    IN  IF gaps = {} THEN s
        ELSE SubSeq(s, 1, (CHOOSE i \in gaps : \A j \in gaps : i <= j) - 1)

\* str.split(): the maximal runs of non-whitespace characters
RECURSIVE Split(_)
Split(s) ==
    LET t == LStrip(s)
        w == TakeWord(t)
    IN  IF t = <<>> THEN <<>>
        ELSE <<w>> \o Split(SubSeq(t, Len(w) + 1, Len(t)))

LowerChar(c) ==
    CASE c = "A" -> "a" [] c = "B" -> "b" [] c = "C" -> "c" [] c = "D" -> "d"
      [] c = "E" -> "e" [] c = "F" -> "f" [] c = "G" -> "g" [] c = "H" -> "h"
      [] c = "I" -> "i" [] c = "J" -> "j" [] c = "K" -> "k" [] c = "L" -> "l"
      [] c = "M" -> "m" [] c = "N" -> "n" [] c = "O" -> "o" [] c = "P" -> "p"
      [] c = "Q" -> "q" [] c = "R" -> "r" [] c = "S" -> "s" [] c = "T" -> "t"
      [] c = "U" -> "u" [] c = "V" -> "v" [] c = "W" -> "w" [] c = "X" -> "x"
      [] c = "Y" -> "y" [] c = "Z" -> "z"
      [] OTHER -> c

\* str.lower()
Lower(s) == [i \in 1..Len(s) |-> LowerChar(s[i])]

(***************************************************************************)
(* Python integers are unbounded.  Byte counts are kept as sign and        *)
(* magnitude, the magnitude as limbs to the base 2^15, least significant   *)
(* first, without leading zero limbs.                                      *)
(***************************************************************************)
Base == 2 ^ 15

RECURSIVE Norm(_)
\* F(x) and F(x, y) with the arguments evaluated once and before F, which
\* keeps the evaluation of long numbers short and shallow
With(F(_), x) == CHOOSE r \in {F(u) : u \in {x}} : TRUE
With2(F(_, _), x, y) == CHOOSE r \in {F(u, v) : u \in {x}, v \in {y}} : TRUE

\* a without leading zero limbs
Norm(a) ==
    With(LAMBDA top : SubSeq(a, 1, top),
         CHOOSE n \in 0..Len(a) :
            /\ n = 0 \/ a[n] # 0
            /\ \A i \in (n + 1)..Len(a) : a[i] = 0)

Limb(a, i) == IF i <= Len(a) THEN a[i] ELSE 0

Max(x, y) == IF x >= y THEN x ELSE y

\* the limbs written so far and the carry into the next one
Limbs(out, carry) == [out |-> out, carry |-> carry]
Carried(st) == With(Norm, Append(st.out, st.carry))

\* the limbs lo..hi of a + b after st; the range is halved so that the
\* evaluation stays shallow
RECURSIVE AddFold(_, _, _, _, _)
AddFold(a, b, lo, hi, st) ==
    IF lo > hi THEN st
    ELSE IF lo = hi
    THEN With(LAMBDA sum : Limbs(Append(st.out, sum % Base), sum \div Base),
              Limb(a, lo) + Limb(b, lo) + st.carry)
    ELSE With(LAMBDA mid :
                  With(LAMBDA low : AddFold(a, b, mid + 1, hi, low),
                       AddFold(a, b, lo, mid, st)),
              (lo + hi) \div 2)

\* a + b
MagAdd(a, b) ==
    With2(LAMBDA x, y :
              With(Carried, AddFold(x, y, 1, Max(Len(x), Len(y)), Limbs(<<>>, 0))),
          a, b)

\* the limbs lo..hi of a * k after st
RECURSIVE MulAddFold(_, _, _, _, _)
MulAddFold(a, k, lo, hi, st) ==
    IF lo > hi THEN st
    ELSE IF lo = hi
    THEN With(LAMBDA sum : Limbs(Append(st.out, sum % Base), sum \div Base),
              a[lo] * k + st.carry)
    ELSE With(LAMBDA mid :
                  With(LAMBDA low : MulAddFold(a, k, mid + 1, hi, low),
                       MulAddFold(a, k, lo, mid, st)),
              (lo + hi) \div 2)

\* a * k + c for one limb k and one limb c
MagMulAdd(a, k, c) ==
    With2(LAMBDA x, y : With(Carried, MulAddFold(x, y, 1, Len(x), Limbs(<<>>, c))),
          a, k)

\* a * Base^k
Shift(a, k) == With(LAMBDA x : IF x = <<>> THEN <<>> ELSE [i \in 1..k |-> 0] \o x, a)

\* a * (the limbs lo..hi of b), times Base^(lo-1)
RECURSIVE MulRange(_, _, _, _)
MulRange(a, b, lo, hi) ==
    IF lo > hi THEN <<>>
    ELSE IF lo = hi THEN Shift(MagMulAdd(a, b[lo], 0), lo - 1)
    ELSE With(LAMBDA mid : MagAdd(MulRange(a, b, lo, mid), MulRange(a, b, mid + 1, hi)),
              (lo + hi) \div 2)

\* a * b
MagMul(a, b) == With2(LAMBDA x, y : MulRange(x, y, 1, Len(y)), a, b)

\* a <= b
MagLeq(a, b) ==
    LET differ == {i \in 1..Len(a) : a[i] # b[i]}
        top == CHOOSE i \in differ : \A j \in differ : j <= i
    IN  IF Len(a) # Len(b) THEN Len(a) < Len(b)
        ELSE differ = {} \/ a[top] < b[top]

RECURSIVE MagOfNat(_)
MagOfNat(n) == IF n = 0 THEN <<>> ELSE <<n % Base>> \o MagOfNat(n \div Base)

Big(neg, mag) == [tag |-> "int", exc |-> "", neg |-> neg /\ mag # <<>>, mag |-> mag]
BigRaise(e) == [tag |-> "raise", exc |-> e, neg |-> FALSE, mag |-> <<>>]
BigNone == [tag |-> "none", exc |-> "", neg |-> FALSE, mag |-> <<>>]

\* the int n, for a machine-word sized n
BigOf(n) == IF n < 0 THEN Big(TRUE, MagOfNat(0 - n)) ELSE Big(FALSE, MagOfNat(n))

\* a * b
BigMul(a, b) == Big(a.neg # b.neg, MagMul(a.mag, b.mag))

\* 10^n
RECURSIVE Pow10(_)
Pow10(n) ==
    IF n = 0 THEN <<1>>
    ELSE IF n % 2 = 0 THEN With(LAMBDA half : MagMul(half, half), Pow10(n \div 2))
    ELSE MagMulAdd(Pow10(n - 1), 10, 0)

\* the number written by the decimal digits ds
RECURSIVE MagOfDigits(_)
MagOfDigits(ds) ==
    With(LAMBDA d :
             IF Len(d) <= 4 THEN MagOfNat(DecimalValue(d))
             ELSE MagAdd(MagMul(MagOfDigits(SubSeq(d, 1, Len(d) - Len(d) \div 2)),
                                Pow10(Len(d) \div 2)),
                         MagOfDigits(SubSeq(d, Len(d) - Len(d) \div 2 + 1, Len(d)))),
         ds)

\* int(text), any size
PyIntBig(text) ==
    LET s == Strip(text)
        signed == s # <<>> /\ Head(s) \in {"-", "+"}
        ds == IF signed THEN Tail(s) ELSE s
    IN  IF ds = <<>> \/ \E i \in 1..Len(ds) : ds[i] \notin Digits
        THEN BigRaise("ValueError")
        ELSE Big(signed /\ Head(s) = "-", MagOfDigits(ds))

(***************************************************************************)
(* Control.  main() calls the queries in a fixed order; a run that starts  *)
(* in a single query stops when that query returns.                        *)
(***************************************************************************)
MainOrder == <<"os_name", "install_dt", "phys_psutil", "logical",
               "total_ram", "free_ram", "gpu_names", "render">>

RECURSIVE IndexOf(_, _, _)
IndexOf(seq, x, i) ==
    IF i > Len(seq) THEN 0 ELSE IF seq[i] = x THEN i ELSE IndexOf(seq, x, i + 1)

\* the outcomes explored for a source: all of them when one query runs
\* alone, a few of each kind when main runs the queries one after another
Drawn(all, few) == IF entry = "main" THEN few ELSE all

\* where control goes when the call made at main's position `at` returns
After(at) ==
    IF entry = "main" THEN MainOrder[IndexOf(MainOrder, at, 1) + 1]
    ELSE IF entry = "cpu" /\ at = "phys_psutil" THEN "logical"
    ELSE "done"

(***************************************************************************)
(* CPU inspector.                                                          *)
(***************************************************************************)
PositiveInt(v) == IsInt(v) /\ v.n > 0

\* os.cpu_count(): the host reports the same count each time it is asked
CpuCountInputs == {None, IntV(0), IntV(0 - 1), IntV(1), IntV(2), IntV(4)}

OsCpuCount(c) ==
    /\ c \in CpuCountInputs
    /\ cpu_count = Unread \/ cpu_count = c
    /\ cpu_count' = c

\* get_logical_cpu_count with `count >= 0` for `count > 0`
get_logical_cpu_count_zero(count) == IF IsInt(count) /\ count.n >= 0 THEN count.n ELSE 1

get_logical_cpu_count(count) == IF IsInt(count) /\ count.n > 0 THEN count.n ELSE 1

\* import psutil; psutil.cpu_count(logical=False)
PsutilInputs == {Raise("ImportError"), None, IntV(0), IntV(2), IntV(4)}

_get_physical_cpu_count_with_psutil(out) ==
    IF IsRaise(out)
    THEN IF Catches({"Exception"}, out.exc) THEN None ELSE out
    ELSE IF IsInt(out) /\ out.n > 0 THEN out ELSE None

\* subprocess.run(...): it raises, or completes with a return code and stdout
ProcRaise(e) == [tag |-> "raise", exc |-> e, returncode |-> 0, stdout |-> <<>>]
Completed(rc, out) == [tag |-> "completed", exc |-> "", returncode |-> rc, stdout |-> out]
ProcUnread == [tag |-> "unread", exc |-> "", returncode |-> 0, stdout |-> <<>>]

PowershellInputs ==
    {ProcRaise("FileNotFoundError"), ProcRaise("TimeoutExpired"),
     Completed(1, <<"4", "\n">>), Completed(0, <<"4", "\n">>),
     Completed(0, <<"0", "\n">>), Completed(0, <<>>),
     Completed(0, <<"a", "b", "c", "\n">>)}

_get_physical_cpu_count_windows(run) ==
    LET body ==
            IF run.tag = "raise" THEN Raise(run.exc)
            ELSE IF run.returncode = 0
                 THEN LET parsed == PyInt(Strip(run.stdout))
                      IN  IF IsRaise(parsed) THEN parsed
                          ELSE IF parsed.n > 0 THEN parsed ELSE None
                 ELSE None
    IN  IF IsRaise(body)
        THEN IF Catches({"Exception"}, body.exc) THEN None ELSE body
        ELSE body

\* A text file: open() or the read raises, or it yields lines.  A line of a
\* "key : value" table is its key (what the stripped line starts with; ""
\* for a blank line), whether it holds a ':', and the text after the first ':'.
FileRaise(e) == [tag |-> "raise", exc |-> e, lines |-> <<>>]
File(ls) == [tag |-> "file", exc |-> "", lines |-> ls]
FileUnread == [tag |-> "unread", exc |-> "", lines |-> <<>>]

Field(key, rest) == [key |-> key, colon |-> TRUE, rest |-> rest]
NoColon(key) == [key |-> key, colon |-> FALSE, rest |-> <<>>]
BlankLine == NoColon("")

StartsWith(line, prefix) == line.key = prefix

\* line.split(":", 1)[1].strip()
AfterColon(line) == IF line.colon THEN [tag |-> "str", exc |-> "", s |-> Strip(line.rest)]
                    ELSE [tag |-> "raise", exc |-> "IndexError", s |-> <<>>]

Absent == [some |-> FALSE, s |-> <<>>]
Some(s) == [some |-> TRUE, s |-> s]

\* the loop of lines 53-63 from line i on: the locals when it ends, or the
\* exception that ends it
LoopEnd(physical_id, core_id, pairs) ==
    [tag |-> "end", exc |-> "", physical_id |-> physical_id, core_id |-> core_id,
     pairs |-> pairs]
LoopRaise(e) ==
    [tag |-> "raise", exc |-> e, physical_id |-> Absent, core_id |-> Absent,
     pairs |-> {}]

RECURSIVE PairsLoop(_, _, _, _, _)
PairsLoop(lines, i, physical_id, core_id, pairs) ==
    IF i > Len(lines) THEN LoopEnd(physical_id, core_id, pairs)
    ELSE LET line == lines[i] IN
         IF StartsWith(line, "")
         THEN PairsLoop(lines, i + 1, Absent, Absent,
                        IF physical_id.some /\ core_id.some
                        THEN pairs \cup {<<physical_id.s, core_id.s>>} ELSE pairs)
         ELSE IF StartsWith(line, "physical id")
         THEN IF AfterColon(line).tag = "raise" THEN LoopRaise(AfterColon(line).exc)
              ELSE PairsLoop(lines, i + 1, Some(AfterColon(line).s), core_id, pairs)
         ELSE IF StartsWith(line, "core id")
         THEN IF AfterColon(line).tag = "raise" THEN LoopRaise(AfterColon(line).exc)
              ELSE PairsLoop(lines, i + 1, physical_id, Some(AfterColon(line).s), pairs)
         ELSE PairsLoop(lines, i + 1, physical_id, core_id, pairs)

\* CpuinfoPairs without lines 64-65: a block ended by the end of the file is lost
CpuinfoPairsNoFlush(f) ==
    LET body ==
            IF f.tag = "raise" THEN Raise(f.exc)
            ELSE LET r == PairsLoop(f.lines, 1, Absent, Absent, {})
                 IN  IF r.tag = "raise" THEN Raise(r.exc)
                     ELSE IF r.pairs # {} THEN IntV(Cardinality(r.pairs)) ELSE None
    IN  IF IsRaise(body)
        THEN IF Catches({"Exception"}, body.exc) THEN None ELSE body
        ELSE body

\* lines 48-69: the (physical id, core id) pairs of /proc/cpuinfo
CpuinfoPairs(f) ==
    LET body ==
            IF f.tag = "raise" THEN Raise(f.exc)
            ELSE LET r == PairsLoop(f.lines, 1, Absent, Absent, {})
                     pairs == IF r.physical_id.some /\ r.core_id.some
                              THEN r.pairs \cup {<<r.physical_id.s, r.core_id.s>>}
                              ELSE r.pairs
                 IN  IF r.tag = "raise" THEN Raise(r.exc)
                     ELSE IF pairs # {} THEN IntV(Cardinality(pairs)) ELSE None
    IN  IF IsRaise(body)
        THEN IF Catches({"Exception"}, body.exc) THEN None ELSE body
        ELSE body

\* One cpuN/topology directory: reading core_id raises (core_exc # "") or
\* gives text; physical_package_id may not exist, or be unreadable.
Topology(core_exc, core, has_pkg, pkg_exc, pkg) ==
    [core_exc |-> core_exc, core |-> core, has_pkg |-> has_pkg,
     pkg_exc |-> pkg_exc, pkg |-> pkg]

RECURSIVE SysfsLoop(_, _, _)
SysfsLoop(dirs, i, pairs_sys) ==
    IF i > Len(dirs) THEN [tag |-> "set", exc |-> "", pairs |-> pairs_sys]
    ELSE LET d == dirs[i] IN
         IF d.core_exc # "" THEN [tag |-> "raise", exc |-> d.core_exc, pairs |-> {}]
         ELSE IF d.has_pkg /\ d.pkg_exc # ""
         THEN [tag |-> "raise", exc |-> d.pkg_exc, pairs |-> {}]
         ELSE LET core_val == Strip(d.core)
                  pkg_val == IF d.has_pkg THEN Strip(d.pkg) ELSE <<"0">>
              IN  SysfsLoop(dirs, i + 1, pairs_sys \cup {<<pkg_val, core_val>>})

\* lines 70-86: the (physical_package_id, core_id) pairs of sysfs
SysfsPairs(dirs) ==
    LET r == SysfsLoop(dirs, 1, {})
        body == IF r.tag = "raise" THEN Raise(r.exc)
                ELSE IF r.pairs # {} THEN IntV(Cardinality(r.pairs)) ELSE None
    IN  IF IsRaise(body)
        THEN IF Catches({"Exception"}, body.exc) THEN None ELSE body
        ELSE body

\* the loop of lines 89-97: the first "cpu cores" line decides
RECURSIVE CpuCoresLoop(_, _)
CpuCoresLoop(lines, i) ==
    IF i > Len(lines) THEN None
    ELSE IF StartsWith(lines[i], "cpu cores")
    THEN IF lines[i].colon
         THEN LET parsed == PyInt(Strip(lines[i].rest))
              IN  IF IsRaise(parsed) THEN parsed
                  ELSE IF parsed.n > 0 THEN parsed ELSE None
         ELSE None
    ELSE CpuCoresLoop(lines, i + 1)

\* lines 87-99: the "cpu cores" field of /proc/cpuinfo
CpuinfoCpuCores(f) ==
    LET body == IF f.tag = "raise" THEN Raise(f.exc) ELSE CpuCoresLoop(f.lines, 1)
    IN  IF IsRaise(body)
        THEN IF Catches({"Exception"}, body.exc) THEN None ELSE body
        ELSE body

\* /proc/cpuinfo tables: processor blocks separated by one blank line, the
\* last block ended by a blank line or by the end of the file.
P0 == Field("physical id", <<" ", "0">>)
P1 == Field("physical id", <<" ", "1">>)
C0 == Field("core id", <<" ", "0">>)
C1 == Field("core id", <<" ", "1">>)

BlockShapes ==
    {<<>>, <<P0, C0>>, <<P0, C1>>, <<P1, C0>>, <<C1, P1>>, <<P0>>, <<C1>>,
     <<P0, P1, C0>>,
     <<Field("physical id", <<"0">>), C0>>,
     <<Field("processor", <<" ", "0">>), P0, C0, Field("cpu cores", <<" ", "2">>)>>,
     <<Field("cpu cores", <<" ", "2">>)>>,
     <<Field("cpu cores", <<" ", "0">>)>>,
     <<Field("cpu cores", <<" ", "x">>)>>,
     <<NoColon("cpu cores")>>,
     <<NoColon("physical id"), C0>>}

RECURSIVE JoinBlocks(_, _)
JoinBlocks(blocks, i) ==
    IF i > Len(blocks) THEN <<>>
    ELSE IF i = Len(blocks) THEN blocks[i]
    ELSE blocks[i] \o <<BlankLine>> \o JoinBlocks(blocks, i + 1)

CpuinfoTables ==
    UNION {{JoinBlocks(b, 1), JoinBlocks(b, 1) \o <<BlankLine>>} :
           b \in UNION {[1..n -> BlockShapes] : n \in 0..MaxBlocks}}

CpuinfoInputs ==
    {FileRaise("FileNotFoundError"), FileRaise("PermissionError"),
     FileRaise("UnicodeDecodeError")} \cup {File(t) : t \in CpuinfoTables}

\* what glob finds under /sys/devices/system/cpu
Cpu(core, pkg) == Topology("", core, TRUE, "", pkg)
SysfsUnread == <<Topology("unread", <<>>, FALSE, "", <<>>)>>

SysfsInputs ==
    {<<>>,
     <<Cpu(<<"0", "\n">>, <<"0", "\n">>)>>,
     <<Cpu(<<"0", "\n">>, <<"0", "\n">>), Cpu(<<"0", "\n">>, <<"0", "\n">>)>>,
     <<Cpu(<<"0", "\n">>, <<"0", "\n">>), Cpu(<<"1", "\n">>, <<"0", "\n">>)>>,
     <<Topology("", <<"0", "\n">>, FALSE, "", <<>>), Cpu(<<"0", "\n">>, <<"1", "\n">>)>>,
     <<Cpu(<<"0", "\n">>, <<"0", "\n">>), Topology("PermissionError", <<>>, TRUE, "", <<>>)>>,
     <<Topology("", <<"0", "\n">>, TRUE, "PermissionError", <<>>)>>}

Systems == {"Windows", "Linux", "Darwin"}

\* PlatformProbe with the Linux probe starting at sysfs
PlatformProbeSysfsFirst ==
    IF system = "Windows" THEN "phys_windows"
    ELSE IF system = "Linux" THEN "linux_sysfs"
    ELSE "phys_fallback"

\* lines 106-112: the probe get_physical_cpu_count runs after psutil
PlatformProbe ==
    IF system = "Windows" THEN "phys_windows"
    ELSE IF system = "Linux" THEN "linux_pairs"
    ELSE "phys_fallback"

\* lines 104-105 and 113-114: `value` ends the chain when it is a positive int
Returns(v) == IsInt(v) /\ v.n > 0

\* get_physical_cpu_count takes v from a source: it raises, returns it, or
\* goes on at `next`
PhysTake(v, next) ==
    /\ value' = v
    /\ IF IsRaise(v)
       THEN /\ pc' = "crashed" /\ exc' = v.exc /\ raised_in' = "phys_psutil"
            /\ UNCHANGED physical_cores
       ELSE IF Returns(v)
       THEN /\ pc' = After("phys_psutil") /\ physical_cores' = v.n
            /\ UNCHANGED <<exc, raised_in>>
       ELSE pc' = next /\ UNCHANGED <<exc, raised_in, physical_cores>>

\* line 103
PhysPsutil ==
    /\ pc = "phys_psutil"
    /\ \E out \in Drawn(PsutilInputs, {Raise("ImportError"), IntV(2)}) :
        /\ psutil_out' = out
        /\ consulted' = Append(consulted, "psutil")
        /\ PhysTake(_get_physical_cpu_count_with_psutil(out), PlatformProbe)
    /\ UNCHANGED <<nonCpuVars, entry, system, cpu_count, powershell_out, cpuinfo, sysfs,
                   logical_cores>>

\* line 108
PhysWindows ==
    /\ pc = "phys_windows"
    /\ \E run \in Drawn(PowershellInputs,
                       {ProcRaise("FileNotFoundError"), Completed(0, <<"4", "\n">>)}) :
        /\ powershell_out' = run
        /\ consulted' = Append(consulted, "powershell")
        /\ PhysTake(_get_physical_cpu_count_windows(run), "phys_fallback")
    /\ UNCHANGED <<nonCpuVars, entry, system, cpu_count, psutil_out, cpuinfo, sysfs,
                   logical_cores>>

\* _get_physical_cpu_count_linux returns v (then line 113 decides), or
\* falls through to its next try block
LinuxTake(v, next) ==
    IF IsNone(v) THEN PhysTake(v, next) ELSE PhysTake(v, "phys_fallback")

\* line 110, lines 48-69
LinuxPairs ==
    /\ pc = "linux_pairs"
    /\ \E f \in Drawn(CpuinfoInputs, {FileRaise("FileNotFoundError"), File(<<P0, C0>>)}) :
        /\ cpuinfo' = f
        /\ consulted' = Append(consulted, "cpuinfo_pairs")
        /\ LinuxTake(CpuinfoPairs(f), "linux_sysfs")
    /\ UNCHANGED <<nonCpuVars, entry, system, cpu_count, psutil_out, powershell_out, sysfs,
                   logical_cores>>

\* lines 70-86
LinuxSysfs ==
    /\ pc = "linux_sysfs"
    /\ \E dirs \in Drawn(SysfsInputs, {<<>>, <<Cpu(<<"0", "\n">>, <<"0", "\n">>)>>}) :
        /\ sysfs' = dirs
        /\ consulted' = Append(consulted, "sysfs")
        /\ LinuxTake(SysfsPairs(dirs), "linux_cpu_cores")
    /\ UNCHANGED <<nonCpuVars, entry, system, cpu_count, psutil_out, powershell_out, cpuinfo,
                   logical_cores>>

\* lines 87-100: the table is read a second time
LinuxCpuCores ==
    /\ pc = "linux_cpu_cores"
    /\ consulted' = Append(consulted, "cpu_cores")
    /\ PhysTake(CpuinfoCpuCores(cpuinfo), "phys_fallback")
    /\ UNCHANGED <<nonCpuVars, entry, system, cpu_count, psutil_out, powershell_out, cpuinfo,
                   sysfs, logical_cores>>

\* line 115
PhysFallback ==
    /\ pc = "phys_fallback"
    /\ \E c \in Drawn(CpuCountInputs, {None, IntV(2)}) :
        /\ OsCpuCount(c)
        /\ physical_cores' = get_logical_cpu_count(c)
    /\ consulted' = Append(consulted, "logical")
    /\ pc' = After("phys_psutil")
    /\ UNCHANGED <<nonCpuVars, entry, exc, raised_in, system, psutil_out, powershell_out, cpuinfo, sysfs,
                   value, logical_cores>>

\* lines 9-11, called from line 522
LogicalCount ==
    /\ pc = "logical"
    /\ \E c \in Drawn(CpuCountInputs, {None, IntV(2)}) :
        /\ OsCpuCount(c)
        /\ logical_cores' = get_logical_cpu_count(c)
    /\ pc' = After("logical")
    /\ UNCHANGED <<nonCpuVars, entry, exc, raised_in, system, psutil_out, powershell_out, cpuinfo, sysfs,
                   value, consulted, physical_cores>>

(***************************************************************************)
(* Memory inspector.                                                       *)
(***************************************************************************)
\* GlobalMemoryStatusEx: its BOOL result and the two fields the code reads
MemoryStatus(result, total, avail) ==
    [result |-> result, ullTotalPhys |-> total, ullAvailPhys |-> avail]
MemStatusUnread == MemoryStatus(0 - 1, BigNone, BigNone)

MemStatusInputs ==
    {MemoryStatus(0, BigOf(0), BigOf(0)),
     MemoryStatus(1, BigMul(BigOf(4096), BigOf(4194304)), BigMul(BigOf(4096), BigOf(1048576))),
     MemoryStatus(1, BigOf(1073741824), BigOf(0))}

\* lines 221-226
_get_total_ram_bytes_windows(ms) ==
    IF ms.result = 0 THEN BigRaise("OSError: GlobalMemoryStatusEx failed")
    ELSE ms.ullTotalPhys

\* lines 268-273
_get_free_ram_bytes_windows(ms) ==
    IF ms.result = 0 THEN BigRaise("OSError: GlobalMemoryStatusEx failed")
    ELSE ms.ullAvailPhys

\* /proc/meminfo lines, as the characters of the line
MemTotalKey == <<"M", "e", "m", "T", "o", "t", "a", "l", ":">>
MemAvailableKey == <<"M", "e", "m", "A", "v", "a", "i", "l", "a", "b", "l", "e", ":">>
MemFreeKey == <<"M", "e", "m", "F", "r", "e", "e", ":">>

\* "<key> <number> <unit>\n"
Entry(key, number, unit) == key \o <<" ", " ">> \o number \o <<" ">> \o unit \o <<"\n">>

MemTotalNumbers == {<<"0">>, <<"1", "6", "7", "7", "7", "2", "1", "6">>, <<"9", "0", "0", "7", "1",
        "9", "9", "2", "5", "4", "7", "4", "0", "9", "9", "1">>, <<"1", "8", "0", "1", "4", "3",
        "9", "8", "5", "0", "9", "4", "8", "1", "9", "8", "4">>}
MemTotalUnits == {<<"k", "B">>, <<"K", "B">>, <<"M", "B">>, <<"G", "B">>, <<"B">>}
FreeNumbers == {<<"1">>, <<"2">>}
FreeUnits == {<<"k", "B">>, <<"m", "B">>}

MeminfoLines ==
    {Entry(MemTotalKey, n, u) : n \in MemTotalNumbers, u \in MemTotalUnits}
    \cup {Entry(k, n, u) : k \in {MemAvailableKey, MemFreeKey}, n \in FreeNumbers,
                           u \in FreeUnits}
    \cup {Entry(k, <<"a", "b", "c">>, <<"k", "B">>) : k \in {MemTotalKey, MemAvailableKey,
            MemFreeKey}}
    \cup {k \o <<" ", "5", "\n">> : k \in {MemTotalKey, MemAvailableKey, MemFreeKey}}
    \cup {MemTotalKey \o <<"5", " ", "k", "B", "\n">>, <<"C", "a", "c", "h", "e", "d", ":", " ",
            "7", " ", "k", "B", "\n">>}

MeminfoInputs ==
    {FileRaise("FileNotFoundError"), FileRaise("PermissionError"),
     FileRaise("UnicodeDecodeError")}
    \cup {File(ls) : ls \in UNION {[1..n -> MeminfoLines] : n \in 0..MaxMemLines}}

\* ToBytes with the kB and MB factors exchanged
ToBytesSwapped(v, unit) ==
    IF unit = <<"k", "b">> THEN BigMul(BigMul(v, BigOf(1024)), BigOf(1024))
    ELSE IF unit = <<"m", "b">> THEN BigMul(v, BigOf(1024))
    ELSE IF unit = <<"g", "b">>
    THEN BigMul(BigMul(BigMul(v, BigOf(1024)), BigOf(1024)), BigOf(1024))
    ELSE BigMul(v, BigOf(1024))

\* lines 238-244, 287-294, 301-308: the value in bytes
ToBytes(v, unit) ==
    IF unit = <<"k", "b">> THEN BigMul(v, BigOf(1024))
    ELSE IF unit = <<"m", "b">> THEN BigMul(BigMul(v, BigOf(1024)), BigOf(1024))
    ELSE IF unit = <<"g", "b">>
    THEN BigMul(BigMul(BigMul(v, BigOf(1024)), BigOf(1024)), BigOf(1024))
    ELSE BigMul(v, BigOf(1024))

\* lines 234-244, 283-294, 297-308: the entry of a matching line; no result
\* when the line has fewer than three parts
ParseEntry(line) ==
    With(LAMBDA parts :
             IF Len(parts) >= 3
             THEN With(LAMBDA v : IF v.tag = "raise" THEN v
                                  ELSE ToBytes(v, Lower(parts[3])),
                       PyIntBig(parts[2]))
             ELSE BigNone,
         Split(line))

\* the loop of lines 232-245: the first MemTotal line decides
RECURSIVE TotalLoop(_, _)
TotalLoop(lines, i) ==
    IF i > Len(lines) THEN BigNone
    ELSE IF StartsWithStr(lines[i], MemTotalKey) THEN ParseEntry(lines[i])
    ELSE TotalLoop(lines, i + 1)

\* lines 246-247 and 313-314: `except FileNotFoundError: pass` around body
NotFoundPasses(body) ==
    IF body.tag = "raise" /\ Catches({"FileNotFoundError"}, body.exc)
    THEN BigNone ELSE body

\* lines 230-247: a byte count, an exception, or no result
MeminfoTotal(f) ==
    With(NotFoundPasses,
         IF f.tag = "raise" THEN BigRaise(f.exc) ELSE TotalLoop(f.lines, 1))

FreeEnd(available_value, free_value) ==
    [tag |-> "end", exc |-> "", available_value |-> available_value,
     free_value |-> free_value]
FreeRaise(e) ==
    [tag |-> "raise", exc |-> e, available_value |-> BigNone, free_value |-> BigNone]

\* the loop of lines 281-308
RECURSIVE FreeLoop(_, _, _, _)
FreeLoop(lines, i, available_value, free_value) ==
    IF i > Len(lines) THEN FreeEnd(available_value, free_value)
    ELSE IF StartsWithStr(lines[i], MemAvailableKey)
    THEN With(LAMBDA e :
                  IF e.tag = "raise" THEN FreeRaise(e.exc)
                  ELSE IF e.tag = "int" THEN FreeEnd(e, free_value)
                  ELSE FreeLoop(lines, i + 1, available_value, free_value),
              ParseEntry(lines[i]))
    ELSE IF StartsWithStr(lines[i], MemFreeKey)
    THEN With(LAMBDA e :
                  IF e.tag = "raise" THEN FreeRaise(e.exc)
                  ELSE IF e.tag = "int" THEN FreeLoop(lines, i + 1, available_value, e)
                  ELSE FreeLoop(lines, i + 1, available_value, free_value),
              ParseEntry(lines[i]))
    ELSE FreeLoop(lines, i + 1, available_value, free_value)

\* lines 277-314
MeminfoFree(f) ==
    With(NotFoundPasses,
         IF f.tag = "raise" THEN BigRaise(f.exc)
         ELSE With(LAMBDA r :
                       IF r.tag = "raise" THEN BigRaise(r.exc)
                       ELSE IF r.available_value.tag # "none" THEN r.available_value
                       ELSE IF r.free_value.tag # "none" THEN r.free_value
                       ELSE BigNone,
                   FreeLoop(f.lines, 1, BigNone, BigNone)))

\* os.sysconf("SC_PAGE_SIZE") and os.sysconf of a page count: each returns an
\* int or raises
Sysconf(page_size, pages) == [page_size |-> page_size, pages |-> pages]
SysconfUnread == Sysconf(BigNone, BigNone)

SysconfInputs ==
    {Sysconf(BigOf(4096), BigOf(4194304)),
     Sysconf(BigOf(65536), BigOf(3)),
     Sysconf(BigOf(4096), BigOf(0 - 1)),
     Sysconf(BigRaise("ValueError"), BigNone),
     Sysconf(BigOf(4096), BigRaise("OSError")),
     Sysconf(BigRaise("AttributeError"), BigNone)}

\* lines 249-251, 316-318, 329-331, 342-344: page size times page count
PageProduct(sc) ==
    IF sc.page_size.tag = "raise" THEN sc.page_size
    ELSE IF sc.pages.tag = "raise" THEN sc.pages
    ELSE BigMul(sc.page_size, sc.pages)

\* lines 248-253 and 315-320; what is "total" or "free"
LinuxSysconf(sc, what) ==
    LET body == PageProduct(sc)
    IN  IF body.tag = "raise" /\ Catches({"ValueError", "OSError", "AttributeError"}, body.exc)
        THEN BigRaise(IF what = "total"
                      THEN "RuntimeError: Unable to determine total RAM on Linux"
                      ELSE "RuntimeError: Unable to determine free RAM on Linux")
        ELSE body

\* lines 328-333 and 341-346
OtherSysconf(sc) ==
    LET body == PageProduct(sc)
    IN  IF body.tag = "raise" /\ Catches({"Exception"}, body.exc)
        THEN BigRaise("NotImplementedError: Unsupported OS")
        ELSE body

\* get_total_ram_bytes takes r from a source: it raises, goes on at `next`
\* with no result, or returns r
TotalTake(r, next) ==
    IF r.tag = "raise"
    THEN /\ pc' = "crashed" /\ exc' = r.exc /\ raised_in' = "total_ram"
         /\ UNCHANGED total_ram_bytes
    ELSE IF r.tag = "none"
    THEN pc' = next /\ UNCHANGED <<exc, raised_in, total_ram_bytes>>
    ELSE /\ pc' = After("total_ram") /\ total_ram_bytes' = r
         /\ UNCHANGED <<exc, raised_in>>

FreeTake(r, next) ==
    IF r.tag = "raise"
    THEN /\ pc' = "crashed" /\ exc' = r.exc /\ raised_in' = "free_ram"
         /\ UNCHANGED free_ram_bytes
    ELSE IF r.tag = "none"
    THEN pc' = next /\ UNCHANGED <<exc, raised_in, free_ram_bytes>>
    ELSE /\ pc' = After("free_ram") /\ free_ram_bytes' = r
         /\ UNCHANGED <<exc, raised_in>>

\* lines 324-325
TotalWindows ==
    /\ pc = "total_ram" /\ system = "Windows"
    /\ \E ms \in MemStatusInputs :
        /\ memstatus' = ms
        /\ TotalTake(_get_total_ram_bytes_windows(ms), "crashed")
    /\ mem_tried' = <<"GlobalMemoryStatusEx">>
    /\ UNCHANGED <<nonMemVars, entry, system, meminfo, sysconf_out, free_ram_bytes>>

\* lines 326-327, 230-247
TotalLinuxMeminfo ==
    /\ pc = "total_ram" /\ system = "Linux"
    /\ \E f \in Drawn(MeminfoInputs,
                       {FileRaise("FileNotFoundError"), FileRaise("PermissionError"),
                        File(<<Entry(MemTotalKey, <<"1", "6", "7", "7", "7", "2", "1", "6">>,
                                <<"k", "B">>)>>),
                        File(<<Entry(MemTotalKey, Repeat("9", HugeDigits), <<"k", "B">>)>>)}) :
        /\ meminfo' = f
        /\ TotalTake(MeminfoTotal(f), "total_sysconf")
    /\ mem_tried' = <<"meminfo">>
    /\ UNCHANGED <<nonMemVars, entry, system, memstatus, sysconf_out, free_ram_bytes>>

\* lines 248-253
TotalLinuxSysconf ==
    /\ pc = "total_sysconf"
    /\ \E sc \in Drawn(SysconfInputs,
                       {Sysconf(BigOf(4096), BigOf(4194304)), Sysconf(BigRaise("ValueError"), BigNone)}) :
        /\ sysconf_out' = sc
        /\ TotalTake(LinuxSysconf(sc, "total"), "crashed")
    /\ mem_tried' = Append(mem_tried, "sysconf")
    /\ UNCHANGED <<nonMemVars, entry, system, memstatus, meminfo, free_ram_bytes>>

\* lines 328-333
TotalOther ==
    /\ pc = "total_ram" /\ system \notin {"Windows", "Linux"}
    /\ \E sc \in Drawn(SysconfInputs,
                       {Sysconf(BigOf(4096), BigOf(4194304)), Sysconf(BigRaise("ValueError"), BigNone)}) :
        /\ sysconf_out' = sc
        /\ TotalTake(OtherSysconf(sc), "crashed")
    /\ mem_tried' = <<"sysconf">>
    /\ UNCHANGED <<nonMemVars, entry, system, memstatus, meminfo, free_ram_bytes>>

\* lines 337-338
FreeWindows ==
    /\ pc = "free_ram" /\ system = "Windows"
    /\ \E ms \in MemStatusInputs :
        /\ memstatus' = ms
        /\ FreeTake(_get_free_ram_bytes_windows(ms), "crashed")
    /\ mem_tried' = <<"GlobalMemoryStatusEx">>
    /\ UNCHANGED <<nonMemVars, entry, system, meminfo, sysconf_out, total_ram_bytes>>

\* lines 339-340, 277-314
FreeLinuxMeminfo ==
    /\ pc = "free_ram" /\ system = "Linux"
    /\ \E f \in Drawn(MeminfoInputs,
                       {FileRaise("FileNotFoundError"),
                        File(<<Entry(MemAvailableKey, <<"1">>, <<"k", "B">>)>>)}) :
        /\ meminfo' = f
        /\ FreeTake(MeminfoFree(f), "free_sysconf")
    /\ mem_tried' = <<"meminfo">>
    /\ UNCHANGED <<nonMemVars, entry, system, memstatus, sysconf_out, total_ram_bytes>>

\* lines 315-320
FreeLinuxSysconf ==
    /\ pc = "free_sysconf"
    /\ \E sc \in Drawn(SysconfInputs,
                       {Sysconf(BigOf(4096), BigOf(4194304)), Sysconf(BigRaise("ValueError"), BigNone)}) :
        /\ sysconf_out' = sc
        /\ FreeTake(LinuxSysconf(sc, "free"), "crashed")
    /\ mem_tried' = Append(mem_tried, "sysconf")
    /\ UNCHANGED <<nonMemVars, entry, system, memstatus, meminfo, total_ram_bytes>>

\* lines 341-346
FreeOther ==
    /\ pc = "free_ram" /\ system \notin {"Windows", "Linux"}
    /\ \E sc \in Drawn(SysconfInputs,
                       {Sysconf(BigOf(4096), BigOf(4194304)), Sysconf(BigRaise("ValueError"), BigNone)}) :
        /\ sysconf_out' = sc
        /\ FreeTake(OtherSysconf(sc), "crashed")
    /\ mem_tried' = <<"sysconf">>
    /\ UNCHANGED <<nonMemVars, entry, system, memstatus, meminfo, total_ram_bytes>>

(***************************************************************************)
(* GPU inspector.                                                          *)
(***************************************************************************)
Quote == "\""
Quoted(s) == <<Quote>> \o s \o <<Quote>>

\* str.splitlines() of text whose line ends are "\n"
RECURSIVE SplitLines(_)
SplitLines(s) ==
    LET ends == {i \in 1..Len(s) : s[i] = "\n"}
        e == CHOOSE i \in ends : \A j \in ends : i <= j
    IN  IF s = <<>> THEN <<>>
        ELSE IF ends = {} THEN <<s>>
        ELSE <<SubSeq(s, 1, e - 1)>> \o SplitLines(SubSeq(s, e + 1, Len(s)))

\* `part in s`
Contains(s, part) ==
    \E i \in 1..(Len(s) - Len(part) + 1) : SubSeq(s, i, i + Len(part) - 1) = part

\* s.split(sep, 1)[1] where s contains sep
AfterFirst(s, sep) ==
    LET at == {i \in 1..Len(s) : s[i] = sep}
        a == CHOOSE i \in at : \A j \in at : i <= j
    IN  SubSeq(s, a + 1, Len(s))

\* s.split(sep)[0]
BeforeFirst(s, sep) ==
    LET at == {i \in 1..Len(s) : s[i] = sep}
        a == CHOOSE i \in at : \A j \in at : i <= j
    IN  IF at = {} THEN s ELSE SubSeq(s, 1, a - 1)

\* line 430: re.findall(r'"([^"]+)"', line) from position i on
RECURSIVE FindQuoted(_, _)
FindQuoted(line, i) ==
    LET closing == {j \in (i + 1)..Len(line) : line[j] = Quote}
        c == CHOOSE j \in closing : \A k \in closing : j <= k
    IN  IF i > Len(line) THEN <<>>
        ELSE IF line[i] # Quote THEN FindQuoted(line, i + 1)
        ELSE IF closing = {} THEN <<>>
        ELSE IF c = i + 1 THEN FindQuoted(line, i + 1)
        ELSE <<SubSeq(line, i + 1, c - 1)>> \o FindQuoted(line, c + 1)

\* lines 357-366 with the `value not in seen` test dropped
RECURSIVE KeepAllLoop(_, _, _)
KeepAllLoop(items, i, result) ==
    IF i > Len(items) THEN result
    ELSE IF Strip(items[i]) = <<>> THEN KeepAllLoop(items, i + 1, result)
    ELSE KeepAllLoop(items, i + 1, Append(result, Strip(items[i])))

_unique_ordered_keep_all(items) == KeepAllLoop(items, 1, <<>>)

\* lines 359-365
RECURSIVE UniqueLoop(_, _, _, _)
UniqueLoop(items, i, seen, result) ==
    LET v == Strip(items[i])
    IN  IF i > Len(items) THEN result
        ELSE IF v = <<>> THEN UniqueLoop(items, i + 1, seen, result)
        ELSE IF v \notin seen
        THEN UniqueLoop(items, i + 1, seen \cup {v}, Append(result, v))
        ELSE UniqueLoop(items, i + 1, seen, result)

\* lines 356-366
_unique_ordered(items) == UniqueLoop(items, 1, {}, <<>>)

\* what a try block leaves behind: the names appended, or an exception that
\* its except clause does not catch
Names(ns) == [tag |-> "names", names |-> ns, exc |-> ""]
Propagates(e) == [tag |-> "raise", names |-> <<>>, exc |-> e]

\* a subprocess.run inside `try: ... except Exception: pass`
Guarded(run, ns) ==
    IF run.tag = "raise"
    THEN IF Catches({"Exception"}, run.exc) THEN Names(<<>>) ELSE Propagates(run.exc)
    ELSE Names(ns)

\* lines 381-384
RECURSIVE StrippedLines(_, _)
StrippedLines(ls, i) ==
    IF i > Len(ls) THEN <<>>
    ELSE IF Strip(ls[i]) # <<>> THEN <<Strip(ls[i])>> \o StrippedLines(ls, i + 1)
    ELSE StrippedLines(ls, i + 1)

\* lines 370-386
PowershellNames(run) ==
    Guarded(run, IF run.returncode = 0 /\ run.stdout # <<>>
                 THEN StrippedLines(SplitLines(run.stdout), 1) ELSE <<>>)

\* lines 401-405
RECURSIVE NameValues(_, _)
NameValues(ls, i) ==
    IF i > Len(ls) THEN <<>>
    ELSE IF StartsWithStr(ls[i], <<"N", "a", "m", "e",
            "=">>) /\ Strip(AfterFirst(ls[i], "=")) # <<>>
    THEN <<Strip(AfterFirst(ls[i], "="))>> \o NameValues(ls, i + 1)
    ELSE NameValues(ls, i + 1)

\* lines 388-407
WmicNames(run) ==
    Guarded(run, IF run.returncode = 0 /\ run.stdout # <<>>
                 THEN NameValues(SplitLines(run.stdout), 1) ELSE <<>>)

VgaClass == <<"V", "G", "A", " ", "c", "o", "m", "p", "a", "t", "i", "b",
        "l", "e", " ", "c", "o", "n", "t", "r", "o", "l", "l", "e", "r">>
Class3D == <<"3", "D", " ", "c", "o", "n", "t", "r", "o", "l", "l", "e", "r">>
DisplayClass == <<"D", "i", "s", "p", "l", "a", "y", " ", "c", "o", "n", "t",
        "r", "o", "l", "l", "e", "r">>

\* lines 421-434
RECURSIVE LspciLoop(_, _)
LspciLoop(ls, i) ==
    LET line == Strip(ls[i])
        fields == FindQuoted(line, 1)
    IN  IF i > Len(ls) THEN <<>>
        ELSE IF line = <<>> THEN LspciLoop(ls, i + 1)
        ELSE IF /\ \/ Contains(line, Quoted(VgaClass))
                   \/ Contains(line, Quoted(Class3D))
                   \/ Contains(line, Quoted(DisplayClass))
                /\ Len(fields) >= 3
        THEN <<fields[2] \o <<" ">> \o fields[3]>> \o LspciLoop(ls, i + 1)
        ELSE LspciLoop(ls, i + 1)

\* lines 412-436
LspciNames(run) ==
    Guarded(run, IF run.returncode = 0 /\ run.stdout # <<>>
                 THEN LspciLoop(SplitLines(run.stdout), 1) ELSE <<>>)

\* lines 442-447: the name taken from one information file
RECURSIVE ModelLoop(_, _)
ModelLoop(ls, i) ==
    IF i > Len(ls) THEN <<>>
    ELSE IF StartsWithStr(ls[i], <<"M", "o", "d", "e", "l", ":">>)
    THEN IF Strip(AfterFirst(ls[i], ":")) # <<>>
         THEN <<<<"N", "V", "I", "D", "I", "A",
                 " ">> \o Strip(AfterFirst(ls[i], ":"))>> ELSE <<>>
    ELSE ModelLoop(ls, i + 1)

\* lines 439-449: a file that cannot be read is skipped
RECURSIVE NvidiaLoop(_, _)
NvidiaLoop(files, i) ==
    LET f == files[i]
        rest == NvidiaLoop(files, i + 1)
    IN  IF i > Len(files) THEN Names(<<>>)
        ELSE IF f.tag = "raise" /\ ~Catches({"Exception"}, f.exc) THEN Propagates(f.exc)
        ELSE IF rest.tag = "raise" THEN rest
        ELSE IF f.tag = "raise" THEN rest
        ELSE Names(ModelLoop(f.lines, 1) \o rest.names)

\* lines 438-451
NvidiaNames(files) == NvidiaLoop(files, 1)

\* lines 454-463, 479: vendor_map.get(vendor_hex.lower()), <<>> for None
VendorName(vendor_hex) ==
    LET h == Lower(vendor_hex)
    IN  IF h \in {<<"0", "x", "1", "0", "d", "e">>, <<"1", "0", "d",
            "e">>} THEN <<"N", "V", "I", "D", "I", "A">>
        ELSE IF h \in {<<"0", "x", "1", "0", "0", "2">>, <<"1", "0", "0",
                "2">>} THEN <<"A", "M", "D", "/", "A", "T", "I">>
        ELSE IF h \in {<<"0", "x", "8", "0", "8", "6">>, <<"8", "0", "8",
                "6">>} THEN <<"I", "n", "t", "e", "l">>
        ELSE IF h \in {<<"0", "x", "1", "a", "0", "3">>, <<"1", "a", "0",
                "3">>} THEN <<"A", "S", "P", "E", "E", "D">>
        ELSE <<>>

\* lines 470-476: driver and pci_id after the loop (<<>> for None: only
\* their truth value is used)
RECURSIVE UeventLoop(_, _, _, _)
UeventLoop(ls, i, driver, pci_id) ==
    IF i > Len(ls) THEN [driver |-> driver, pci_id |-> pci_id]
    ELSE IF StartsWithStr(ls[i], <<"D", "R", "I", "V", "E", "R", "=">>)
    THEN UeventLoop(ls, i + 1, Strip(AfterFirst(ls[i], "=")), pci_id)
    ELSE IF StartsWithStr(ls[i], <<"P", "C", "I", "_", "I", "D", "=">>)
    THEN UeventLoop(ls, i + 1, driver, Strip(AfterFirst(ls[i], "=")))
    ELSE UeventLoop(ls, i + 1, driver, pci_id)

\* lines 477-484: the name taken from one card
CardName(ls) ==
    LET u == UeventLoop(ls, 1, <<>>, <<>>)
        vendor_name == VendorName(BeforeFirst(u.pci_id, ":"))
    IN  IF u.pci_id = <<>> \/ vendor_name = <<>> THEN <<>>
        ELSE IF u.driver # <<>> THEN <<vendor_name \o <<" ",
                "(">> \o u.driver \o <<")">>>>
        ELSE <<vendor_name \o <<" ", "G", "P", "U">>>>

NoUevent == [tag |-> "missing", exc |-> "", lines |-> <<>>]

\* lines 464-486: a card without uevent file or with an unreadable one is
\* skipped
RECURSIVE DrmLoop(_, _)
DrmLoop(cards, i) ==
    LET f == cards[i]
        rest == DrmLoop(cards, i + 1)
    IN  IF i > Len(cards) THEN Names(<<>>)
        ELSE IF f.tag = "raise" /\ ~Catches({"Exception"}, f.exc) THEN Propagates(f.exc)
        ELSE IF rest.tag = "raise" THEN rest
        ELSE IF f.tag \in {"raise", "missing"} THEN rest
        ELSE Names(CardName(f.lines) \o rest.names)

\* lines 453-488
DrmNames(cards) == DrmLoop(cards, 1)

\* the texts of at most n lines of `shapes`, every line ended by "\n"
RECURSIVE Texts(_, _)
Texts(shapes, n) ==
    IF n = 0 THEN {<<>>}
    ELSE Texts(shapes, n - 1)
         \cup {t \o l \o <<"\n">> : t \in Texts(shapes, n - 1), l \in shapes}

\* the sequences of at most n members of `shapes`
RECURSIVE Lists(_, _)
Lists(shapes, n) ==
    IF n = 0 THEN {<<>>}
    ELSE Lists(shapes, n - 1)
         \cup {Append(t, x) : t \in Lists(shapes, n - 1), x \in shapes}

\* what a listing subprocess can do: fail to start, time out, exit non-zero,
\* or print `texts`
RunInputs(texts) ==
    {ProcRaise("FileNotFoundError"), ProcRaise("TimeoutExpired")}
    \cup {Completed(1, t) : t \in {<<>>, CHOOSE t \in texts : Len(t) > 0}}
    \cup {Completed(0, t) : t \in texts}

PowershellLines == {<<>>, <<" ">>, <<"A">>, <<" ", "A", "\t">>, <<"B">>}
GpuPowershellInputs == RunInputs(Texts(PowershellLines, MaxGpuLines))

WmicLines == {<<>>, <<"N", "a", "m", "e", "=", "A", "\r">>, <<"N", "a", "m",
        "e", "=", " ", "A", " ">>, <<"N", "a", "m", "e", "=", "B">>, <<"N",
        "a", "m", "e", "=">>, <<"S", "t", "a", "t", "u", "s", "=", "O", "K">>}
GpuWmicInputs == RunInputs(Texts(WmicLines, MaxGpuLines))

LspciLine(class, rest) == <<"0", "0", ":", "0", "2", ".", "0",
        " ">> \o Quoted(class) \o rest
LspciLines ==
    {LspciLine(VgaClass, <<" ", "\"", "A", "\"", " ", "\"", "B", "\"">>),
     LspciLine(VgaClass, <<" ", "\"", " ", "A", "\"", " ", "\"", "B", " ",
             "\"">>),
     LspciLine(Class3D, <<" ", "\"", "C", "\"", " ", "\"", "D", "\"", " ",
             "-", "r", "0", "1">>),
     LspciLine(DisplayClass, <<" ", "\"", "A", "\"", " ", "\"", "B", "\"">>),
     LspciLine(VgaClass \o <<" ", "[", "0", "3", "0", "0", "]">>, <<" ",
             "\"", "A", " ", "[", "8", "0", "8", "6", "]", "\"", " ", "\"",
             "B", " ", "[", "1", "2", "3", "4", "]", "\"">>),
     LspciLine(<<"A", "u", "d", "i", "o", " ", "d", "e", "v", "i", "c",
             "e">>, <<" ", "\"", "A", "\"", " ", "\"", "B", "\"">>),
     LspciLine(VgaClass, <<" ", "\"", "A", "\"">>),
     LspciLine(VgaClass, <<" ", "\"", "\"", " ", "\"", "A", "\"", " ", "\"",
             "B", "\"">>),
     <<" ", " ">>}
LspciInputs == RunInputs(Texts(LspciLines, MaxGpuLines))

NvidiaFiles ==
    {File(<<<<"M", "o", "d", "e", "l", ":", " ", "\t", " ", "A", "\n">>,
            <<"I", "R", "Q", ":", " ", "1", "\n">>>>),
     File(<<<<"I", "R", "Q", ":", " ", "1", "\n">>, <<"M", "o", "d", "e",
             "l", ":", "B", "\n">>>>),
     File(<<<<"M", "o", "d", "e", "l", ":", " ", " ", "\n">>, <<"M", "o",
             "d", "e", "l", ":", " ", "A", "\n">>>>),
     File(<<>>),
     FileRaise("PermissionError")}
NvidiaInputs == Lists(NvidiaFiles, MaxGpuFiles)

DrmCards ==
    {NoUevent,
     File(<<<<"D", "R", "I", "V", "E", "R", "=", "i", "9", "1", "5", "\n">>,
             <<"P", "C", "I", "_", "I", "D", "=", "8", "0", "8", "6", ":",
             "1", "2", "3", "4", "\n">>>>),
     File(<<<<"P", "C", "I", "_", "I", "D", "=", "1", "0", "D", "E", ":",
             "1", "\n">>>>),
     File(<<<<"P", "C", "I", "_", "I", "D", "=", "f", "f", "f", "f", ":",
             "1", "\n">>, <<"D", "R", "I", "V", "E", "R", "=", "x", "\n">>>>),
     FileRaise("PermissionError")}
DrmInputs == Lists(DrmCards, MaxGpuFiles)

\* GpuTake that goes on to the next source even when names were found
GpuTakeAll(r, next) ==
    IF r.tag = "raise"
    THEN /\ pc' = "crashed" /\ exc' = r.exc /\ raised_in' = "gpu_names"
         /\ UNCHANGED <<names, gpu_names>>
    ELSE /\ names' = names \o r.names
         /\ UNCHANGED <<exc, raised_in>>
         /\ IF next # "return"
            THEN pc' = next /\ UNCHANGED gpu_names
            ELSE pc' = After("gpu_names") /\ gpu_names' = _unique_ordered(names \o r.names)

\* lines 387, 408, 437, 452, 489: after a source, either the next source is
\* tried (names still empty) or the function returns
GpuTake(r, next) ==
    IF r.tag = "raise"
    THEN /\ pc' = "crashed" /\ exc' = r.exc /\ raised_in' = "gpu_names"
         /\ UNCHANGED <<names, gpu_names>>
    ELSE /\ names' = names \o r.names
         /\ UNCHANGED <<exc, raised_in>>
         /\ IF names \o r.names = <<>> /\ next # "return"
            THEN pc' = next /\ UNCHANGED gpu_names
            ELSE pc' = After("gpu_names") /\ gpu_names' = _unique_ordered(names \o r.names)

\* lines 493-494, 369-386
GpuPowershell ==
    /\ pc = "gpu_names" /\ system = "Windows"
    /\ \E run \in Drawn(GpuPowershellInputs,
                       {ProcRaise("FileNotFoundError"), Completed(0, <<"A", "\n">>)}) :
        /\ gpu_powershell' = run
        /\ GpuTake(PowershellNames(run), "gpu_wmic")
    /\ gpu_tried' = Append(gpu_tried, "powershell")
    /\ UNCHANGED <<nonGpuVars, entry, system, gpu_wmic, lspci_out, nvidia_files, drm_cards>>

\* lines 387-408
GpuWmic ==
    /\ pc = "gpu_wmic"
    /\ \E run \in Drawn(GpuWmicInputs,
                       {ProcRaise("FileNotFoundError"), Completed(0, <<"N", "a", "m", "e", "=",
                               "B", "\n">>)}) :
        /\ gpu_wmic' = run
        /\ GpuTake(WmicNames(run), "return")
    /\ gpu_tried' = Append(gpu_tried, "wmic")
    /\ UNCHANGED <<nonGpuVars, entry, system, gpu_powershell, lspci_out, nvidia_files,
                   drm_cards>>

\* lines 495-496, 411-436
GpuLspci ==
    /\ pc = "gpu_names" /\ system = "Linux"
    /\ \E run \in Drawn(LspciInputs, {ProcRaise("FileNotFoundError"),
                       Completed(0, LspciLine(VgaClass, <<" ", "\"", "A", "\"", " ", "\"", "B",
                               "\"">>) \o <<"\n">>)}) :
        /\ lspci_out' = run
        /\ GpuTake(LspciNames(run), "gpu_nvidia")
    /\ gpu_tried' = Append(gpu_tried, "lspci")
    /\ UNCHANGED <<nonGpuVars, entry, system, gpu_powershell, gpu_wmic, nvidia_files,
                   drm_cards>>

\* lines 437-451
GpuNvidia ==
    /\ pc = "gpu_nvidia"
    /\ \E files \in Drawn(NvidiaInputs,
                       {<<>>, <<File(<<<<"M", "o", "d", "e", "l", ":", " ", "A", "\n">>>>)>>}) :
        /\ nvidia_files' = files
        /\ GpuTake(NvidiaNames(files), "gpu_drm")
    /\ gpu_tried' = Append(gpu_tried, "nvidia")
    /\ UNCHANGED <<nonGpuVars, entry, system, gpu_powershell, gpu_wmic, lspci_out,
                   drm_cards>>

\* lines 452-489
GpuDrm ==
    /\ pc = "gpu_drm"
    /\ \E cards \in Drawn(DrmInputs,
                       {<<>>, <<File(<<<<"P", "C", "I", "_", "I", "D", "=", "1", "0", "D", "E",
                               ":", "1", "\n">>>>)>>}) :
        /\ drm_cards' = cards
        /\ GpuTake(DrmNames(cards), "return")
    /\ gpu_tried' = Append(gpu_tried, "drm")
    /\ UNCHANGED <<nonGpuVars, entry, system, gpu_powershell, gpu_wmic, lspci_out,
                   nvidia_files>>

\* line 497
GpuOther ==
    /\ pc = "gpu_names" /\ system \notin {"Windows", "Linux"}
    /\ gpu_names' = <<>>
    /\ pc' = After("gpu_names")
    /\ UNCHANGED <<nonGpuVars, entry, exc, raised_in, system, gpu_powershell, gpu_wmic,
                   lspci_out, nvidia_files, drm_cards, names, gpu_tried>>

(***************************************************************************)
(* Table renderer.                                                         *)
(***************************************************************************)
NoHeader == [given |-> FALSE, cells |-> <<<<>>, <<>>>>]
Header(a, b) == [given |-> TRUE, cells |-> <<a, b>>]

\* line 500: the default header
DefaultHeader == Header(<<"P", "r", "o", "p", "e", "r", "t", "y">>, <<"V",
        "a", "l", "u", "e">>)

\* str.rjust(width)
RJust(s, width) == IF Len(s) >= width THEN s ELSE Repeat(" ", width - Len(s)) \o s

\* str.ljust(width)
LJust(s, width) == IF Len(s) >= width THEN s ELSE s \o Repeat(" ", width - Len(s))

\* max() of a non-empty list of lengths
RECURSIVE MaxOf(_)
MaxOf(ns) ==
    IF Len(ns) = 1 THEN ns[1]
    ELSE IF ns[1] >= MaxOf(Tail(ns)) THEN ns[1] ELSE MaxOf(Tail(ns))

\* lines 502-503: the width of column c
ColWidth(rows, header, c) ==
    MaxOf(<<IF header.given THEN Len(header.cells[c]) ELSE 0>>
          \o [i \in 1..Len(rows) |-> Len(rows[i][c])])

\* lines 504-505
sep(char, col1_width, col2_width) ==
    <<"+", "-">> \o Repeat(char, col1_width) \o <<"-", "+",
            "-">> \o Repeat(char, col2_width) \o <<"-", "+">>

\* lines 510, 514
TableRow(cells, col1_width, col2_width) ==
    <<"|", " ">> \o LJust(cells[1], col1_width) \o <<" ", "|",
            " ">> \o LJust(cells[2], col2_width) \o <<" ", "|">>

\* lines 499-516
table_lines(rows, header) ==
    LET col1_width == ColWidth(rows, header, 1)
        col2_width == ColWidth(rows, header, 2)
    IN  <<sep("-", col1_width, col2_width)>>
        \o (IF header.given
            THEN <<TableRow(header.cells, col1_width, col2_width),
                   sep("=", col1_width, col2_width)>>
            ELSE <<>>)
        \o [i \in 1..Len(rows) |-> TableRow(rows[i], col1_width, col2_width)]
        \o <<sep("-", col1_width, col2_width)>>

\* the cell texts of at most n characters
CellTexts(n) == {Repeat("a", k) : k \in 0..n}
TableRows == Lists(CellTexts(MaxCell) \X CellTexts(MaxCell), MaxRows)
TableHeaders ==
    {NoHeader, DefaultHeader}
    \cup {Header(a, b) : a \in CellTexts(MaxCell), b \in CellTexts(MaxCell)}

\* lines 499-516: one call of table_lines
TableLines ==
    /\ pc = "table_lines"
    /\ \E rows \in TableRows, header \in TableHeaders :
        /\ table_rows' = rows
        /\ table_header' = header
        /\ table_out' = table_lines(rows, header)
    /\ pc' = After("table_lines")
    /\ UNCHANGED <<nonTableVars, entry, exc, raised_in, system>>

(***************************************************************************)
(* OS identity.                                                            *)
(***************************************************************************)
Text(s) == [tag |-> "str", s |-> s, exc |-> ""]
TextRaise(e) == [tag |-> "raise", s |-> <<>>, exc |-> e]
TextNone == [tag |-> "none", s |-> <<>>, exc |-> ""]

\* platform.release(), platform.version() and platform.platform() of the host
PlatformRelease == <<"1", "0">>
PlatformVersion == <<"1", "0", ".", "0", ".", "1", "9", "0", "4", "5">>
PlatformPlatform == IF system = "Linux" THEN <<"L", "i", "n", "u", "x", "-", "6", ".", "1", "-",
        "x", "8", "6", "_", "6", "4">> ELSE <<"m", "a", "c", "O", "S", "-", "1", "4", "-", "a",
        "r", "m", "6", "4">>

\* the registry read of lines 119-130: the import or OpenKey or the query of
\* CurrentBuild raises, or CurrentBuild is read and then UBR is queried
RegRaise(e) == [tag |-> "raise", exc |-> e, current_build |-> <<>>, ubr |-> TextNone]
RegKey(current_build, ubr) ==
    [tag |-> "key", exc |-> "", current_build |-> current_build, ubr |-> ubr]
RegUnread == [tag |-> "unread", exc |-> "", current_build |-> <<>>, ubr |-> TextNone]

BuildInputs ==
    {RegRaise("ImportError"), RegRaise("FileNotFoundError"), RegRaise("PermissionError")}
    \cup {RegKey(b, u) : b \in {<<"1", "9", "0", "4", "5">>, <<>>},
                         u \in {Text(<<"3", "5", "7", "0">>), TextRaise("FileNotFoundError"),
                                TextRaise("PermissionError")}}

\* lines 117-132
_get_windows_build_number(reg) ==
    LET body ==
            IF reg.tag = "raise" THEN TextRaise(reg.exc)
            ELSE IF reg.ubr.tag = "raise"
            THEN IF Catches({"FileNotFoundError"}, reg.ubr.exc)
                 THEN Text(reg.current_build) ELSE TextRaise(reg.ubr.exc)
            ELSE Text(reg.current_build \o <<".">> \o reg.ubr.s)
    IN  IF body.tag = "raise" /\ Catches({"Exception"}, body.exc) THEN TextNone ELSE body

EditionInputs == {TextRaise("OSError"), Text(<<>>), Text(<<"P", "r", "o">>)}

\* lines 137-148
OsNameWindows(ed, reg) ==
    LET edition ==
            IF ed.tag = "raise"
            THEN IF Catches({"Exception"}, ed.exc) THEN Text(<<>>) ELSE ed
            ELSE ed
        build_number == _get_windows_build_number(reg)
        version ==
            IF build_number.tag = "str" /\ build_number.s # <<>>
            THEN build_number.s ELSE PlatformVersion
        edition_str == IF edition.s # <<>> THEN <<" ">> \o edition.s ELSE <<>>
    IN  IF edition.tag = "raise" THEN edition
        ELSE IF build_number.tag = "raise" THEN build_number
        ELSE Text(<<"W", "i", "n", "d", "o", "w", "s", " ">> \o PlatformRelease \o edition_str
                  \o <<" ", "(", "b", "u", "i", "l", "d", " ">> \o version \o <<")">>)

\* str.strip('"')
RECURSIVE StripQuotes(_)
StripQuotes(s) ==
    IF s # <<>> /\ Head(s) = Quote THEN StripQuotes(Tail(s))
    ELSE IF s # <<>> /\ s[Len(s)] = Quote THEN StripQuotes(SubSeq(s, 1, Len(s) - 1))
    ELSE s

\* lines 153-156: `pretty` after the loop, <<>> for None (only its truth value
\* is used)
RECURSIVE PrettyLoop(_, _)
PrettyLoop(ls, i) ==
    IF i > Len(ls) THEN <<>>
    ELSE IF StartsWithStr(ls[i], <<"P", "R", "E", "T", "T", "Y", "_", "N", "A", "M", "E", "=">>)
    THEN StripQuotes(Strip(AfterFirst(ls[i], "=")))
    ELSE PrettyLoop(ls, i + 1)

\* lines 150-161
OsNameLinux(f) ==
    LET body == IF f.tag = "raise" THEN TextRaise(f.exc) ELSE Text(PrettyLoop(f.lines, 1))
    IN  IF body.tag = "raise" /\ ~Catches({"Exception"}, body.exc) THEN body
        ELSE IF body.tag = "str" /\ body.s # <<>> THEN body
        ELSE Text(PlatformPlatform)

OsReleaseLines ==
    {<<"P", "R", "E", "T", "T", "Y", "_", "N", "A", "M", "E", "=", "\"", "U", "b", "u", "n", "t",
            "u", " ", "2", "2", ".", "0", "4", "\"", "\n">>, <<"P", "R", "E", "T", "T", "Y", "_",
            "N", "A", "M", "E", "=", "A", "r", "c", "h", "\n">>, <<"P", "R", "E", "T", "T", "Y",
            "_", "N", "A", "M", "E", "=", "\"", "\"", "\n">>,
     <<"P", "R", "E", "T", "T", "Y", "_", "N", "A", "M", "E", "=", "\n">>, <<"N", "A", "M", "E",
             "=", "\"", "U", "b", "u", "n", "t", "u", "\"", "\n">>}
OsReleaseInputs ==
    {FileRaise("FileNotFoundError"), FileRaise("PermissionError"),
     FileRaise("UnicodeDecodeError")}
    \cup {File(ls) : ls \in Lists(OsReleaseLines, MaxOsLines)}

OsNameTake(r) ==
    IF r.tag = "raise"
    THEN /\ pc' = "crashed" /\ exc' = r.exc /\ raised_in' = "os_name"
         /\ UNCHANGED os_name
    ELSE /\ pc' = After("os_name") /\ os_name' = r.s
         /\ UNCHANGED <<exc, raised_in>>

\* lines 136-148
OsNameOnWindows ==
    /\ pc = "os_name" /\ system = "Windows"
    /\ \E ed \in EditionInputs,
          reg \in Drawn(BuildInputs,
                        {RegRaise("ImportError"), RegKey(<<"1", "9", "0", "4", "5">>, Text(<<"3",
                                "5", "7", "0">>))}) :
        /\ edition_out' = ed
        /\ winreg_out' = reg
        /\ OsNameTake(OsNameWindows(ed, reg))
    /\ UNCHANGED <<nonOsVars, entry, system, os_release, install_reg, stats, install_dt>>

\* lines 149-161
OsNameOnLinux ==
    /\ pc = "os_name" /\ system = "Linux"
    /\ \E f \in Drawn(OsReleaseInputs,
                      {FileRaise("FileNotFoundError"), File(<<<<"P", "R", "E", "T", "T", "Y", "_",
                              "N", "A", "M", "E", "=", "\"", "A", "\"", "\n">>>>)}) :
        /\ os_release' = f
        /\ OsNameTake(OsNameLinux(f))
    /\ UNCHANGED <<nonOsVars, entry, system, edition_out, winreg_out, install_reg, stats,
                   install_dt>>

\* line 162
OsNameOther ==
    /\ pc = "os_name" /\ system \notin {"Windows", "Linux"}
    /\ OsNameTake(Text(PlatformPlatform))
    /\ UNCHANGED <<nonOsVars, entry, system, edition_out, winreg_out, os_release,
                   install_reg, stats, install_dt>>

\* the seconds since the epoch of the years 1 and 9999, as magnitudes
MinSeconds == <<30464, 28451, 57>>
MaxSeconds == <<16767, 32744, 235>>

\* lines 174, 189: datetime.fromtimestamp(seconds, tz=utc).astimezone(); a
\* date-time is kept as its instant, which the change of zone leaves alone
FromTimestamp(seconds) ==
    IF seconds.tag # "int" THEN seconds
    ELSE IF seconds.neg /\ ~MagLeq(seconds.mag, MinSeconds) THEN BigRaise("ValueError")
    ELSE IF ~seconds.neg /\ ~MagLeq(seconds.mag, MaxSeconds) THEN BigRaise("ValueError")
    ELSE seconds

\* the registry read of lines 166-172: it raises, or InstallDate is a number
\* or a text
ValueRaise(e) == [tag |-> "raise", exc |-> e, n |-> BigNone, s |-> <<>>]
ValueInt(n) == [tag |-> "int", exc |-> "", n |-> n, s |-> <<>>]
ValueText(s) == [tag |-> "str", exc |-> "", n |-> BigNone, s |-> s]
ValueUnread == [tag |-> "unread", exc |-> "", n |-> BigNone, s |-> <<>>]

InstallDateInputs ==
    {ValueRaise("ImportError"), ValueRaise("FileNotFoundError"),
     ValueInt(BigOf(1700000000)), ValueInt(BigOf(0)),
     ValueText(<<"1", "7", "0", "0", "0", "0", "0", "0", "0", "0">>), ValueText(<<"a", "b", "c">>),
             ValueText(<<"9", "9", "9", "9", "9", "9", "9", "9", "9", "9", "9", "9">>)}

\* lines 164-176
_get_windows_install_datetime(v) ==
    LET seconds ==
            IF v.tag = "raise" THEN BigRaise(v.exc)
            ELSE IF v.tag = "int" THEN v.n ELSE PyIntBig(v.s)
        body == FromTimestamp(seconds)
    IN  IF body.tag = "raise" /\ Catches({"Exception"}, body.exc) THEN BigNone ELSE body

\* lines 179-184
candidate_paths ==
    <<"/var/log/installer/syslog", "/var/log/anaconda/anaconda.log",
      "/var/log/installer", "/etc">>

\* os.stat raises or gives st_mtime
StatInputs ==
    {BigRaise("FileNotFoundError"), BigRaise("PermissionError"), BigOf(100), BigOf(200),
     Big(FALSE, <<0, 0, 0, 1>>)}

\* a <= b for two instants
Earlier(a, b) ==
    IF a.neg # b.neg THEN a.neg
    ELSE IF a.neg THEN MagLeq(b.mag, a.mag) ELSE MagLeq(a.mag, b.mag)

\* lines 186-195: the earliest time stamp from path i on, None without any
RECURSIVE EarliestFrom(_, _)
EarliestFrom(st, i) ==
    LET ts == FromTimestamp(st[i])
        rest == EarliestFrom(st, i + 1)
    IN  IF i > Len(st) THEN BigNone
        ELSE IF ts.tag = "raise" /\ ~Catches({"Exception"}, ts.exc) THEN ts
        ELSE IF rest.tag = "raise" THEN rest
        ELSE IF ts.tag = "raise" THEN rest
        ELSE IF rest.tag = "none" THEN ts
        ELSE IF Earlier(ts, rest) THEN ts ELSE rest

\* lines 178-195
_get_linux_install_datetime(st) == EarliestFrom(st, 1)

InstallTake(r) ==
    IF r.tag = "raise"
    THEN /\ pc' = "crashed" /\ exc' = r.exc /\ raised_in' = "install_dt"
         /\ UNCHANGED install_dt
    ELSE /\ pc' = After("install_dt") /\ install_dt' = r
         /\ UNCHANGED <<exc, raised_in>>

\* lines 199-200
InstallOnWindows ==
    /\ pc = "install_dt" /\ system = "Windows"
    /\ \E v \in Drawn(InstallDateInputs,
                      {ValueRaise("ImportError"), ValueInt(BigOf(1700000000))}) :
        /\ install_reg' = v
        /\ InstallTake(_get_windows_install_datetime(v))
    /\ UNCHANGED <<nonOsVars, entry, system, edition_out, winreg_out, os_release, os_name,
                   stats>>

\* lines 201-202
InstallOnLinux ==
    /\ pc = "install_dt" /\ system = "Linux"
    /\ \E st \in Drawn([1..Len(candidate_paths) -> StatInputs],
                       {[i \in 1..Len(candidate_paths) |-> BigRaise("FileNotFoundError")],
                        [i \in 1..Len(candidate_paths) |->
                            IF i = Len(candidate_paths) THEN BigOf(100)
                            ELSE BigRaise("FileNotFoundError")]}) :
        /\ stats' = st
        /\ InstallTake(_get_linux_install_datetime(st))
    /\ UNCHANGED <<nonOsVars, entry, system, edition_out, winreg_out, os_release, os_name,
                   install_reg>>

\* line 203
InstallOther ==
    /\ pc = "install_dt" /\ system \notin {"Windows", "Linux"}
    /\ InstallTake(BigNone)
    /\ UNCHANGED <<nonOsVars, entry, system, edition_out, winreg_out, os_release, os_name,
                   install_reg, stats>>

(***************************************************************************)
(* main: the report.                                                       *)
(***************************************************************************)
\* num_bytes / 2^k is too large for a float when it rounds to 2^1024 or
\* more, that is from (2^54 - 1) * 2^(970 + k) on
FloatLimit(k) ==
    Shift(MagMul(<<32767, 32767, 32767, 511>>, MagOfNat(2 ^ ((970 + k) % 15))),
          (970 + k) \div 15)

\* a value with the name of the conversion that gives the cell's text
Cell(format, v) == [tag |-> "cell", format |-> format, value |-> v]
CellRaise(e) == [tag |-> "raise", format |-> "", value |-> e]

\* lines 348-350
format_bytes_as_gb(num_bytes) ==
    IF MagLeq(FloatLimit(30), num_bytes.mag)
    THEN CellRaise("OverflowError") ELSE Cell("{:.2f} GB", num_bytes)

\* lines 352-354
format_bytes_as_mb(num_bytes) ==
    IF MagLeq(FloatLimit(20), num_bytes.mag)
    THEN CellRaise("OverflowError") ELSE Cell("{:.2f} MB", num_bytes)

\* ", ".join(items)
RECURSIVE Join(_, _)
Join(items, i) ==
    IF i > Len(items) THEN <<>>
    ELSE IF i = Len(items) THEN items[i]
    ELSE items[i] \o <<",", " ">> \o Join(items, i + 1)

\* lines 526-540: the rows are built and the table is printed, unless a
\* conversion raises
Render ==
    /\ pc = "render"
    /\ LET gpu_display == IF gpu_names # <<>> THEN Join(gpu_names, 1) ELSE <<"U", "n", "k", "n",
            "o", "w", "n">>
           install_display ==
               IF install_dt.tag # "none" THEN Cell("%Y-%m-%d %H:%M:%S %Z", install_dt)
               ELSE Cell("str", <<"U", "n", "k", "n", "o", "w", "n">>)
           total == format_bytes_as_gb(total_ram_bytes)
           free == format_bytes_as_mb(free_ram_bytes)
       IN  IF "raise" \in {total.tag, free.tag}
           THEN /\ pc' = "crashed" /\ raised_in' = "render"
                /\ exc' = IF total.tag = "raise" THEN total.value ELSE free.value
                /\ UNCHANGED main_rows
           ELSE /\ main_rows' = << <<"Operating system", Cell("str", os_name)>>,
                                  <<"OS install date", install_display>>,
                                  <<"Physical cores", Cell("str", physical_cores)>>,
                                  <<"Logical cores", Cell("str", logical_cores)>>,
                                  <<"GPU(s)", Cell("str", gpu_display)>>,
                                  <<"Total RAM", total>>,
                                  <<"Free RAM", free>> >>
                /\ pc' = "done"
                /\ UNCHANGED <<exc, raised_in>>
    /\ UNCHANGED <<entry, system, cpuVars, memVars, gpuVars, tableVars, osVars>>

(***************************************************************************)
(* Specifications.                                                         *)
(***************************************************************************)
\* the state in which function `e` is entered at position `start`
Entered(e, start) ==
    /\ entry = e
    /\ pc = start
    /\ exc = ""
    /\ raised_in = ""
    /\ system \in Systems
    /\ cpu_count = Unread
    /\ psutil_out = Unread
    /\ powershell_out = ProcUnread
    /\ cpuinfo = FileUnread
    /\ sysfs = SysfsUnread
    /\ value = None
    /\ consulted = <<>>
    /\ physical_cores = 0
    /\ logical_cores = 0
    /\ memstatus = MemStatusUnread
    /\ meminfo = FileUnread
    /\ sysconf_out = SysconfUnread
    /\ mem_tried = <<>>
    /\ total_ram_bytes = BigNone
    /\ free_ram_bytes = BigNone
    /\ gpu_powershell = ProcUnread
    /\ gpu_wmic = ProcUnread
    /\ lspci_out = ProcUnread
    /\ nvidia_files = <<>>
    /\ drm_cards = <<>>
    /\ names = <<>>
    /\ gpu_tried = <<>>
    /\ gpu_names = <<>>
    /\ table_rows = <<>>
    /\ table_header = NoHeader
    /\ table_out = <<>>
    /\ edition_out = TextNone
    /\ winreg_out = RegUnread
    /\ os_release = FileUnread
    /\ os_name = <<>>
    /\ install_reg = ValueUnread
    /\ stats = <<>>
    /\ install_dt = BigNone
    /\ main_rows = <<>>

\* get_physical_cpu_count() then get_logical_cpu_count(), as lines 521-522
InitCpu == Entered("cpu", "phys_psutil")

NextCpu ==
    \/ PhysPsutil
    \/ PhysWindows
    \/ LinuxPairs
    \/ LinuxSysfs
    \/ LinuxCpuCores
    \/ PhysFallback
    \/ LogicalCount

SpecCpu == InitCpu /\ [][NextCpu]_vars

\* one call of get_total_ram_bytes() or of get_free_ram_bytes()
InitMem == Entered("total_ram", "total_ram") \/ Entered("free_ram", "free_ram")

NextMem ==
    \/ TotalWindows
    \/ TotalLinuxMeminfo
    \/ TotalLinuxSysconf
    \/ TotalOther
    \/ FreeWindows
    \/ FreeLinuxMeminfo
    \/ FreeLinuxSysconf
    \/ FreeOther

SpecMem == InitMem /\ [][NextMem]_vars

\* one call of get_gpu_names()
InitGpu == Entered("gpu_names", "gpu_names")

NextGpu ==
    \/ GpuPowershell
    \/ GpuWmic
    \/ GpuLspci
    \/ GpuNvidia
    \/ GpuDrm
    \/ GpuOther

SpecGpu == InitGpu /\ [][NextGpu]_vars

\* one call of table_lines, a pure function: the platform is left fixed
InitTable == Entered("table_lines", "table_lines") /\ system = "Linux"

NextTable == TableLines

SpecTable == InitTable /\ [][NextTable]_vars

\* one call of get_os_name() or of get_os_install_datetime()
InitOs == Entered("os_name", "os_name") \/ Entered("install_dt", "install_dt")

NextOs ==
    \/ OsNameOnWindows
    \/ OsNameOnLinux
    \/ OsNameOther
    \/ InstallOnWindows
    \/ InstallOnLinux
    \/ InstallOther

SpecOs == InitOs /\ [][NextOs]_vars

\* main(): the queries in the order of lines 519-525, then the report
InitMain == Entered("main", "os_name")

NextMain ==
    \/ NextOs
    \/ NextCpu
    \/ NextMem
    \/ NextGpu
    \/ Render

SpecMain == InitMain /\ [][NextMain]_vars

(***************************************************************************)
(* What each source of the physical core count holds, read off the raw     *)
(* outcome of the source: a positive count, or 0 for "no result".          *)
(***************************************************************************)
\* the call made at main's position `at` has returned
Calls(e) ==
    IF e = "main" THEN {MainOrder[i] : i \in 1..Len(MainOrder)}
    ELSE IF e = "cpu" THEN {"phys_psutil", "logical"}
    ELSE {e}

Past(at) ==
    \/ pc = "done" /\ at \in Calls(entry)
    \/ IndexOf(MainOrder, pc, 1) > IndexOf(MainOrder, at, 1)

NonSpace(text) == SelectSeq(text, LAMBDA c : c \notin Whitespace)

IsNumber(text) == text # <<>> /\ \A i \in 1..Len(text) : text[i] \in Digits

SameBlock(lines, i, j) ==
    \A k \in 1..Len(lines) :
        (k >= i /\ k <= j) \/ (k >= j /\ k <= i) => lines[k].key # ""

\* line i is the last line with this key in its block
LastOfKey(lines, i, key) ==
    /\ lines[i].key = key
    /\ \A k \in (i + 1)..Len(lines) :
           SameBlock(lines, i, k) => lines[k].key # key

\* the (physical id, core id) pairs carried by the blocks of a table
BlockPairs(lines) ==
    {<<NonSpace(lines[p].rest), NonSpace(lines[c].rest)>> :
        <<p, c>> \in {<<i, j>> \in (1..Len(lines)) \X (1..Len(lines)) :
                         /\ LastOfKey(lines, i, "physical id")
                         /\ LastOfKey(lines, j, "core id")
                         /\ SameBlock(lines, i, j)}}

\* every "physical id" / "core id" line of the table has its ':' separator
WellFormedIds(lines) ==
    \A i \in 1..Len(lines) :
        lines[i].key \in {"physical id", "core id"} => lines[i].colon

PsutilHolds ==
    IF psutil_out.tag = "int" /\ psutil_out.n >= 1 THEN psutil_out.n ELSE 0

PowershellHolds ==
    IF /\ powershell_out.tag = "completed"
       /\ powershell_out.returncode = 0
       /\ IsNumber(NonSpace(powershell_out.stdout))
    THEN DecimalValue(NonSpace(powershell_out.stdout)) ELSE 0

PairsHolds ==
    IF cpuinfo.tag = "file" /\ WellFormedIds(cpuinfo.lines)
    THEN Cardinality(BlockPairs(cpuinfo.lines)) ELSE 0

SysfsHolds ==
    IF \E i \in 1..Len(sysfs) :
           sysfs[i].core_exc # "" \/ (sysfs[i].has_pkg /\ sysfs[i].pkg_exc # "")
    THEN 0
    ELSE Cardinality({<<IF sysfs[i].has_pkg THEN NonSpace(sysfs[i].pkg) ELSE <<"0">>,
                        NonSpace(sysfs[i].core)>> : i \in 1..Len(sysfs)})

CpuCoresHolds ==
    IF cpuinfo.tag # "file" THEN 0
    ELSE LET ls == cpuinfo.lines
             first == {i \in 1..Len(ls) :
                          /\ ls[i].key = "cpu cores"
                          /\ \A k \in 1..(i - 1) : ls[k].key # "cpu cores"}
         IN  IF \E i \in first : ls[i].colon /\ IsNumber(NonSpace(ls[i].rest))
             THEN LET i == CHOOSE i \in first : TRUE
                  IN  DecimalValue(NonSpace(ls[i].rest))
             ELSE 0

LogicalHolds == IF cpu_count.tag = "int" /\ cpu_count.n >= 1 THEN cpu_count.n ELSE 1

Holds(source) ==
    CASE source = "psutil" -> PsutilHolds
      [] source = "powershell" -> PowershellHolds
      [] source = "cpuinfo_pairs" -> PairsHolds
      [] source = "sysfs" -> SysfsHolds
      [] source = "cpu_cores" -> CpuCoresHolds
      [] source = "logical" -> LogicalHolds

\* the order in which the sources are to be tried on each platform
ChainOrder ==
    IF system = "Windows" THEN <<"psutil", "powershell", "logical">>
    ELSE IF system = "Linux"
    THEN <<"psutil", "cpuinfo_pairs", "sysfs", "cpu_cores", "logical">>
    ELSE <<"psutil", "logical">>

IsPrefix(a, b) == Len(a) <= Len(b) /\ a = SubSeq(b, 1, Len(a))

(***************************************************************************)
(* Claims about the CPU inspector, checked under SpecCpu.                  *)
(***************************************************************************)
TopologySources == {"psutil", "powershell", "cpuinfo_pairs", "sysfs", "cpu_cores"}

Last(seq) == seq[Len(seq)]

\* C2: both core counts are integers >= 1 and neither query raises; when
\* os.cpu_count() reports None, zero or a negative value the logical count
\* is 1; when every physical-core source of the platform holds no result the
\* physical count is the logical count.
C2_CoreCountsAtLeastOne ==
    /\ pc # "crashed"
    /\ Past("phys_psutil") => physical_cores >= 1
    /\ Past("logical") => logical_cores >= 1
    /\ Past("logical") /\ ~(cpu_count.tag = "int" /\ cpu_count.n >= 1)
           => logical_cores = 1
    /\ Past("phys_psutil")
         /\ (\A i \in 1..Len(ChainOrder) :
                ChainOrder[i] \in TopologySources => Holds(ChainOrder[i]) = 0)
           => physical_cores = LogicalHolds

C2_Witness ==
    /\ Past("logical")
    /\ system = "Linux"
    /\ consulted = ChainOrder
    /\ cpu_count = IntV(0)
    /\ physical_cores = 1
    /\ logical_cores = 1

\* C5: on Linux, when psutil holds no result and the blocks of
\* /proc/cpuinfo carry N >= 1 distinct (physical id, core id) pairs,
\* get_physical_cpu_count returns N.
C5_DistinctPairsCounted ==
    /\ Past("phys_psutil")
    /\ system = "Linux"
    /\ PsutilHolds = 0
    /\ cpuinfo.tag = "file"
    /\ WellFormedIds(cpuinfo.lines)
    /\ BlockPairs(cpuinfo.lines) # {}
    => physical_cores = Cardinality(BlockPairs(cpuinfo.lines))

\* two hyperthread siblings of one core, the second block ended by the end
\* of the file
C5_Witness ==
    /\ Past("phys_psutil")
    /\ system = "Linux"
    /\ PsutilHolds = 0
    /\ cpuinfo = File(<<P0, C0, BlankLine, P0, C0>>)
    /\ physical_cores = 1

\* C6: the physical count never exceeds the logical count when the physical
\* count comes from a topology source and the logical one from os.cpu_count().
C6_PhysicalAtMostLogical ==
    /\ Past("logical")
    /\ Last(consulted) \in TopologySources
    /\ cpu_count.tag = "int" /\ cpu_count.n >= 1
    => physical_cores <= logical_cores

\* C10: the sources are read in the platform's fixed order; a source is read
\* only after every earlier one held no result; the result is what the last
\* source read holds; a source that raises, times out or holds malformed
\* output passes control on and never ends the chain with an error.
C10_FirstSourceWins ==
    /\ pc # "crashed"
    /\ IsPrefix(consulted, ChainOrder)
    /\ \A i \in 1..(Len(consulted) - 1) : Holds(consulted[i]) = 0
    /\ pc \in {"phys_windows", "linux_pairs", "linux_sysfs", "linux_cpu_cores",
               "phys_fallback"}
           => consulted # <<>> /\ Holds(Last(consulted)) = 0
    /\ Past("phys_psutil")
           => /\ consulted # <<>>
              /\ Holds(Last(consulted)) >= 1
              /\ physical_cores = Holds(Last(consulted))

\* the 'cpu cores' field wins after psutil raised, the table carried a
\* malformed "physical id" line and a sysfs file was unreadable
C10_Witness ==
    /\ Past("phys_psutil")
    /\ psutil_out = Raise("ImportError")
    /\ consulted = <<"psutil", "cpuinfo_pairs", "sysfs", "cpu_cores">>
    /\ ~WellFormedIds(cpuinfo.lines)
    /\ \E i \in 1..Len(sysfs) : sysfs[i].core_exc = "PermissionError"
    /\ physical_cores = 2

(***************************************************************************)
(* Claims about the memory inspector, checked under SpecMem.               *)
(***************************************************************************)
\* a line "<key> <number> <unit>": at least three parts, the second a number
WellFormedEntry(line, key) ==
    /\ StartsWithStr(line, key)
    /\ Len(Split(line)) >= 3
    /\ IsNumber(Split(line)[2])

\* the unit's factor: 1024 for kB, 1024^2 for MB, 1024^3 for GB in any
\* letter case, 1024 for any other unit
UnitFactor(unit) ==
    IF unit \in {<<"M", "B">>, <<"M", "b">>, <<"m", "B">>, <<"m", "b">>} THEN <<0, 32>>
    ELSE IF unit \in {<<"G", "B">>, <<"G", "b">>, <<"g", "B">>, <<"g", "b">>} THEN <<0, 0, 1>>
    ELSE <<1024>>

\* the byte value a well-formed entry states
EntryBytes(line) ==
    Big(FALSE, MagMul(MagOfDigits(Split(line)[2]), UnitFactor(Split(line)[3])))

\* the lines of the table that start with key
LinesOf(key) ==
    {i \in 1..Len(meminfo.lines) : StartsWithStr(meminfo.lines[i], key)}

FirstOf(S) == CHOOSE i \in S : \A j \in S : i <= j
LastIn(S) == CHOOSE i \in S : \A j \in S : i >= j

\* a magnitude below 2^bits
Below(mag, bits) ==
    \/ Len(mag) <= bits \div 15
    \/ Len(mag) = bits \div 15 + 1 /\ mag[Len(mag)] < 2 ^ (bits % 15)

\* C3: on Linux a RAM query raises only after both /proc/meminfo and the
\* sysconf fallback were tried, and then with the descriptive error.
C3_ErrorOnlyAfterAllSources ==
    pc = "crashed" /\ system = "Linux" /\ raised_in \in {"total_ram", "free_ram"}
    => /\ mem_tried = <<"meminfo", "sysconf">>
       /\ exc = IF raised_in = "total_ram"
                THEN "RuntimeError: Unable to determine total RAM on Linux"
                ELSE "RuntimeError: Unable to determine free RAM on Linux"

\* C4: on Linux get_free_ram_bytes returns the MemAvailable entry when a
\* well-formed one is present, whatever else the table holds; the MemFree
\* entry when MemFree is present and MemAvailable absent; the sysconf
\* product when neither is present or the table does not exist.
C4_FreeRamPreference ==
    entry = "free_ram" /\ system = "Linux" /\ meminfo.tag # "unread"
    => /\ meminfo.tag = "file"
          /\ (\E i \in LinesOf(MemAvailableKey) :
                 WellFormedEntry(meminfo.lines[i], MemAvailableKey))
          => /\ pc = "done"
             /\ free_ram_bytes =
                  EntryBytes(meminfo.lines[FirstOf(
                      {i \in LinesOf(MemAvailableKey) :
                          WellFormedEntry(meminfo.lines[i], MemAvailableKey)})])
       /\ meminfo.tag = "file"
          /\ LinesOf(MemAvailableKey) = {}
          /\ (\E i \in LinesOf(MemFreeKey) : WellFormedEntry(meminfo.lines[i], MemFreeKey))
          => /\ pc = "done"
             /\ free_ram_bytes =
                  EntryBytes(meminfo.lines[LastIn(
                      {i \in LinesOf(MemFreeKey) :
                          WellFormedEntry(meminfo.lines[i], MemFreeKey)})])
       /\ \/ meminfo.tag = "file" /\ LinesOf(MemAvailableKey) = {}
                                  /\ LinesOf(MemFreeKey) = {}
          \/ meminfo.tag = "raise" /\ meminfo.exc = "FileNotFoundError"
          => \/ pc = "free_sysconf"
             \/ mem_tried = <<"meminfo", "sysconf">>
                /\ (sysconf_out.page_size.tag = "int" /\ sysconf_out.pages.tag = "int"
                    => /\ pc = "done"
                       /\ free_ram_bytes = BigMul(sysconf_out.page_size, sysconf_out.pages))

\* every number of a MemAvailable or MemFree line is a decimal number
FreeEntriesParse ==
    \A i \in LinesOf(MemAvailableKey) \cup LinesOf(MemFreeKey) :
        Len(Split(meminfo.lines[i])) >= 3 => IsNumber(Split(meminfo.lines[i])[2])

\* what C4 states holds of every readable table whose entries parse
FreeRamPreferenceWhenParseable ==
    meminfo.tag = "raise" \/ (meminfo.tag = "file" /\ FreeEntriesParse)
    => C4_FreeRamPreference

\* C8: on Linux, when the MemTotal line of /proc/meminfo is
\* "MemTotal: <v> <unit>", get_total_ram_bytes returns v times the unit's
\* factor; "MemTotal: 16777216 kB" gives 17179869184 (2^34); the result is
\* not negative, and below 2^63 for a kB count below 2^53.
C8_MemTotalBytes ==
    /\ entry = "total_ram" /\ system = "Linux" /\ meminfo.tag = "file"
    /\ LinesOf(MemTotalKey) # {}
    /\ WellFormedEntry(meminfo.lines[FirstOf(LinesOf(MemTotalKey))], MemTotalKey)
    => LET line == meminfo.lines[FirstOf(LinesOf(MemTotalKey))]
           v == MagOfDigits(Split(line)[2])
       IN  /\ pc = "done"
           /\ total_ram_bytes = EntryBytes(line)
           /\ ~total_ram_bytes.neg
           /\ line = Entry(MemTotalKey, <<"1", "6", "7", "7", "7", "2", "1", "6">>, <<"k", "B">>)
              => total_ram_bytes.mag = <<0, 0, 16>>
           /\ UnitFactor(Split(line)[3]) = <<1024>> /\ Below(v, 53)
              => Below(total_ram_bytes.mag, 63)

C8_Witness ==
    /\ pc = "done" /\ entry = "total_ram" /\ system = "Linux"
    /\ meminfo = File(<<<<"C", "a", "c", "h", "e", "d", ":", " ", "7", " ", "k", "B", "\n">>,
            Entry(MemTotalKey, <<"1", "6", "7", "7", "7", "2", "1", "6">>, <<"k", "B">>)>>)
    /\ total_ram_bytes = Big(FALSE, <<0, 0, 16>>)

(***************************************************************************)
(* Claims about the GPU inspector, checked under SpecGpu.                  *)
(***************************************************************************)
\* t is s without its leading and trailing whitespace
IsTrimOf(t, s) ==
    /\ t = <<>> \/ (t[1] \notin Whitespace /\ t[Len(t)] \notin Whitespace)
    /\ \E a \in 0..Len(s) :
        /\ a + Len(t) <= Len(s)
        /\ SubSeq(s, a + 1, a + Len(t)) = t
        /\ \A k \in (1..a) \cup ((a + Len(t) + 1)..Len(s)) : s[k] \in Whitespace

\* the first candidate collected that trims to the entry
FirstCandidate(e) ==
    CHOOSE k \in 1..Len(names) :
        /\ IsTrimOf(e, names[k])
        /\ \A j \in 1..(k - 1) : ~IsTrimOf(e, names[j])

\* C7: the list get_gpu_names returns holds exactly the trimmed non-empty
\* candidates collected, each once, in the order of first occurrence.
C7_GpuNamesNormalised ==
    Past("gpu_names")
    => /\ \A i \in 1..Len(gpu_names) :
            /\ gpu_names[i] # <<>>
            /\ gpu_names[i][1] \notin Whitespace
            /\ gpu_names[i][Len(gpu_names[i])] \notin Whitespace
            /\ \E k \in 1..Len(names) : IsTrimOf(gpu_names[i], names[k])
       /\ \A i, j \in 1..Len(gpu_names) : i # j => gpu_names[i] # gpu_names[j]
       /\ \A k \in 1..Len(names) :
            (\E c \in 1..Len(names[k]) : names[k][c] \notin Whitespace)
            => \E i \in 1..Len(gpu_names) : IsTrimOf(gpu_names[i], names[k])
       /\ \A i, j \in 1..Len(gpu_names) :
            i < j => FirstCandidate(gpu_names[i]) < FirstCandidate(gpu_names[j])

\* two candidates that differ only by surrounding whitespace gave one entry
C7_Witness ==
    /\ pc = "done" /\ system = "Linux"
    /\ names = <<<<"A", " ", "B">>, <<" ", "A", " ", "B", " ">>>>
    /\ gpu_names = <<<<"A", " ", "B">>>>

\* the order of the Linux sources
LinuxGpuOrder == <<"lspci", "nvidia", "drm">>

\* the names a Linux source gives on its own, from what was read of it
Produced(source) ==
    IF source = "lspci" THEN LspciNames(lspci_out).names
    ELSE IF source = "nvidia" THEN NvidiaNames(nvidia_files).names
    ELSE DrmNames(drm_cards).names

\* the source failed: the tool is missing, timed out or exited non-zero, or
\* none of its files could be read
SourceFailed(source) ==
    IF source = "lspci" THEN lspci_out.tag = "raise" \/ lspci_out.returncode # 0
    ELSE IF source = "nvidia"
    THEN \A i \in 1..Len(nvidia_files) : nvidia_files[i].tag = "raise"
    ELSE \A i \in 1..Len(drm_cards) : drm_cards[i].tag \in {"raise", "missing"}

\* C11: on Linux get_gpu_names reads lspci, then the NVIDIA information
\* files, then the DRM uevent files, and stops at the first source that gives
\* a non-empty list of names: every source read before the last gave none, the
\* names collected are those of the last source read alone, a failed source
\* gives none and is followed by the next one, and when all three give none
\* the result is the empty list; no error leaves the function.
C11_LinuxFirstNonEmptySourceWins ==
    system = "Linux"
    => /\ raised_in # "gpu_names"
       /\ IsPrefix(gpu_tried, LinuxGpuOrder)
       /\ \A i \in 1..(Len(gpu_tried) - 1) : Produced(gpu_tried[i]) = <<>>
       /\ \A i \in 1..Len(gpu_tried) :
            SourceFailed(gpu_tried[i])
            => /\ Produced(gpu_tried[i]) = <<>>
               /\ Past("gpu_names") => (i < Len(gpu_tried) \/ gpu_tried = LinuxGpuOrder)
       /\ Past("gpu_names")
          => /\ gpu_tried # <<>>
             /\ names = Produced(Last(gpu_tried))
             /\ names = <<>> => gpu_tried = LinuxGpuOrder /\ gpu_names = <<>>
             /\ \A i \in 1..Len(gpu_names) :
                    \E k \in 1..Len(Produced(Last(gpu_tried))) :
                        IsTrimOf(gpu_names[i], Produced(Last(gpu_tried))[k])

\* lspci was missing, the NVIDIA files gave a name and the DRM files were
\* never read
C11_Witness ==
    /\ pc = "done" /\ system = "Linux"
    /\ gpu_tried = <<"lspci", "nvidia">>
    /\ lspci_out.tag = "raise"
    /\ gpu_names # <<>>
    /\ drm_cards = <<>>

(***************************************************************************)
(* Claims about the table renderer, checked under SpecTable.               *)
(***************************************************************************)
\* the cells of column c: the header's, if any, and every row's
Column(c) ==
    {table_rows[i][c] : i \in 1..Len(table_rows)}
    \cup (IF table_header.given THEN {table_header.cells[c]} ELSE {})

\* the greatest length in column c, 0 for an empty column
Width(c) ==
    IF Column(c) = {} THEN 0
    ELSE CHOOSE w \in {Len(x) : x \in Column(c)} : \A x \in Column(c) : Len(x) <= w

\* where the columns lie in a line
Span1 == 3..(2 + Width(1))
Span2 == (6 + Width(1))..(5 + Width(1) + Width(2))
LineLength == 7 + Width(1) + Width(2)

\* a rule: '+' at the column boundaries, char along both columns
IsRule(line, char) ==
    /\ Len(line) = LineLength
    /\ line[1] = "+" /\ line[4 + Width(1)] = "+" /\ line[LineLength] = "+"
    /\ \A i \in Span1 \cup Span2 : line[i] = char

\* text at the left of a span, then spaces
LeftJustified(line, span, text) ==
    \A i \in span :
        LET at == i - (CHOOSE lo \in span : \A j \in span : lo <= j) + 1
        IN  line[i] = IF at <= Len(text) THEN text[at] ELSE " "

\* a line of two cells, each left-justified in its column with one space at
\* each side, between '|'
IsRow(line, cells) ==
    /\ Len(line) = LineLength
    /\ line[1] = "|" /\ line[4 + Width(1)] = "|" /\ line[LineLength] = "|"
    /\ line[2] = " " /\ line[3 + Width(1)] = " "
    /\ line[5 + Width(1)] = " " /\ line[LineLength - 1] = " "
    /\ Len(cells[1]) <= Width(1) /\ Len(cells[2]) <= Width(2)
    /\ LeftJustified(line, Span1, cells[1])
    /\ LeftJustified(line, Span2, cells[2])

\* C9: table_lines returns a '-' rule, the header line and a '=' rule if a
\* header is given, one line per row in input order, and a '-' rule; the
\* columns are as wide as their longest cell, cells are left-justified with
\* one space each side, all lines are equally long; no rows and no header
\* give exactly the two '-' rules.
C9_TableLayout ==
    Past("table_lines")
    => LET first == IF table_header.given THEN 3 ELSE 1
       IN  /\ Len(table_out) = first + Len(table_rows) + 1
           /\ IsRule(table_out[1], "-")
           /\ table_header.given
              => /\ IsRow(table_out[2], table_header.cells)
                 /\ IsRule(table_out[3], "=")
           /\ \A i \in 1..Len(table_rows) : IsRow(table_out[first + i], table_rows[i])
           /\ IsRule(table_out[Len(table_out)], "-")
           /\ \A i \in 1..Len(table_out) : Len(table_out[i]) = Len(table_out[1])
           /\ table_rows = <<>> /\ ~table_header.given
              => table_out = <<<<"+", "-", "-", "+", "-", "-", "+">>, <<"+", "-", "-", "+", "-",
                      "-", "+">>>>

\* a header and two rows, one cell shorter than its column
C9_Witness ==
    /\ pc = "done"
    /\ table_header = Header(<<"a">>, <<>>)
    /\ table_rows = << <<<<"a", "a">>, <<"a">>>>, <<<<"a">>, <<"a", "a">>>> >>
    /\ table_out = <<<<"+", "-", "-", "-", "-", "+", "-", "-", "-", "-", "+">>, <<"|", " ", "a",
            " ", " ", "|", " ", " ", " ", " ", "|">>, <<"+", "-", "=", "=", "-", "+", "-", "=",
            "=", "-", "+">>,
                     <<"|", " ", "a", "a", " ", "|", " ", "a", " ", " ", "|">>, <<"|", " ", "a",
                             " ", " ", "|", " ", "a", "a", " ", "|">>, <<"+", "-", "-", "-", "-",
                             "+", "-", "-", "-", "-", "+">>>>

(***************************************************************************)
(* Claims about main, checked under SpecMain.                              *)
(***************************************************************************)
\* C1: get_os_name, get_os_install_datetime, get_physical_cpu_count,
\* get_logical_cpu_count and get_gpu_names never raise, so that main ends
\* abnormally only through an error raised by get_total_ram_bytes or
\* get_free_ram_bytes.
C1_OnlyRamQueriesFail ==
    /\ raised_in \notin {"os_name", "install_dt", "phys_psutil", "logical", "gpu_names"}
    /\ pc = "crashed" => raised_in \in {"total_ram", "free_ram"}

\* the first half of C1 alone: no error leaves one of the five queries
QueriesNeverRaise ==
    raised_in \notin {"os_name", "install_dt", "phys_psutil", "logical", "gpu_names"}
====
